---- MODULE Spec2Model ----
(***************************************************************************)
(* A model of the snap-ally Playwright reporter (src/src/SnapAllyReporter  *)
(* .ts): the per-test tasks started by onTestEnd, their suspension points, *)
(* the shared executionSummary they fold into, and the run-end barrier.    *)
(*                                                                         *)
(* Strings the code edits character by character (titles, page keys, file  *)
(* names) are sequences of one-character strings; strings the code only    *)
(* copies or tests for emptiness are TLA+ strings.                         *)
(***************************************************************************)
EXTENDS Integers, Sequences, FiniteSets, TLC

VARIABLES
    options,            \* SnapAllyReporter.options (set by the constructor)
    testIndex,          \* SnapAllyReporter.testIndex
    tasks,              \* SnapAllyReporter.tasks: one entry per onTestEnd call
    executionSummary,   \* SnapAllyReporter.executionSummary
    onEnd,              \* position and outcome of the onEnd call
    files,              \* files written by A11yHtmlRenderer.render
    sanState,           \* input and result of one page-key sanitisation
    ovState,            \* input and result of one configuration overlay
    mergeState,         \* input and result of one step merge
    videoState,         \* one call of copyTestVideo
    copyState,          \* the asset copies of one test result
    scanState           \* one call of scanA11y

vars == <<options, testIndex, tasks, executionSummary, onEnd, files, sanState, ovState, mergeState, videoState, copyState, scanState>>

-----------------------------------------------------------------------------
(* Bounds of the model                                                     *)

MaxTests == 2
MaxSources == 2
MaxAttempts == 2
MaxKeyTokens == 3
MaxSteps == 2
MaxVideos == 3
MaxAssets == 2
MaxViolations == 2
MaxNodes == 2

-----------------------------------------------------------------------------
(* Characters and strings                                                  *)

Lower == <<"a","b","c","d","e","f","g","h","i","j","k","l","m",
           "n","o","p","q","r","s","t","u","v","w","x","y","z">>

Upper == <<"A","B","C","D","E","F","G","H","I","J","K","L","M",
           "N","O","P","Q","R","S","T","U","V","W","X","Y","Z">>

Digit == <<"0","1","2","3","4","5","6","7","8","9">>

IsLower(c) == \E i \in DOMAIN Lower : Lower[i] = c

IsUpper(c) == \E i \in DOMAIN Upper : Upper[i] = c

IsDigit(c) == \E i \in DOMAIN Digit : Digit[i] = c

\* the character class [a-z0-9] under the i flag
IsAlnum(c) == IsLower(c) \/ IsUpper(c) \/ IsDigit(c)

ToLowerChar(c) == IF IsUpper(c) THEN Lower[CHOOSE i \in DOMAIN Upper : Upper[i] = c] ELSE c

\* String.prototype.toLowerCase
ToLowerCase(s) == [i \in 1..Len(s) |-> ToLowerChar(s[i])]

HasPrefix(s, p) == Len(s) >= Len(p) /\ SubSeq(s, 1, Len(p)) = p

RECURSIVE Concat(_)
Concat(ss) == IF ss = <<>> THEN <<>> ELSE Head(ss) \o Concat(Tail(ss))

\* decimal digits of a number, as template literals print it
RECURSIVE DigitsOf(_)
DigitsOf(n) == IF n < 10 THEN <<Digit[n + 1]>> ELSE DigitsOf(n \div 10) \o <<Digit[(n % 10) + 1]>>

Http == <<"h","t","t","p",":","/","/">>

Https == <<"h","t","t","p","s",":","/","/">>

\* .replace(/https?:\/\//, ''): the leftmost match only (no g flag), case-sensitive
RECURSIVE StripProtocol(_)
StripProtocol(s) ==
    IF s = <<>> THEN s
    ELSE IF HasPrefix(s, Https) THEN SubSeq(s, Len(Https) + 1, Len(s))
    ELSE IF HasPrefix(s, Http) THEN SubSeq(s, Len(Http) + 1, Len(s))
    ELSE <<Head(s)>> \o StripProtocol(Tail(s))

RECURSIVE DropNonAlnum(_)
DropNonAlnum(s) == IF s # <<>> /\ ~IsAlnum(Head(s)) THEN DropNonAlnum(Tail(s)) ELSE s

\* CollapseNonAlnum with a fault: every character replaced on its own (the + dropped)
RECURSIVE CollapseEachChar(_)
CollapseEachChar(s) ==
    IF s = <<>> THEN s
    ELSE <<IF IsAlnum(Head(s)) THEN Head(s) ELSE "-">> \o CollapseEachChar(Tail(s))

\* .replace(/[^a-z0-9]+/gi, '-'): every maximal run of other characters becomes one hyphen
RECURSIVE CollapseNonAlnum(_)
CollapseNonAlnum(s) ==
    IF s = <<>> THEN s
    ELSE IF IsAlnum(Head(s)) THEN <<Head(s)>> \o CollapseNonAlnum(Tail(s))
    ELSE <<"-">> \o CollapseNonAlnum(DropNonAlnum(Tail(s)))

RECURSIVE DropLeadingHyphens(_)
DropLeadingHyphens(s) == IF s # <<>> /\ Head(s) = "-" THEN DropLeadingHyphens(Tail(s)) ELSE s

RECURSIVE DropTrailingHyphens(_)
DropTrailingHyphens(s) ==
    IF s # <<>> /\ s[Len(s)] = "-" THEN DropTrailingHyphens(SubSeq(s, 1, Len(s) - 1)) ELSE s

\* .replace(/^-+|-+$/g, '')
TrimHyphens(s) == DropTrailingHyphens(DropLeadingHyphens(s))

\* the sanitizedKey of a truthy pageKey
SanitizeKey(pageKey) == ToLowerCase(TrimHyphens(CollapseNonAlnum(StripProtocol(pageKey))))

\* the sanitizedTitle of a test title (no protocol strip, no trim)
SanitizeTitle(title) == ToLowerCase(CollapseNonAlnum(title))

-----------------------------------------------------------------------------
(* Values of the reporter                                                  *)

\* an optional string that is not there (undefined)
NoValue == "undefined"

\* JavaScript truthiness of an optional string
Truthy(s) == s # NoValue /\ s # ""

\* a || b on optional strings
OrElse(a, b) == IF Truthy(a) THEN a ELSE b

EmptyMap == [x \in {} |-> 0]

Put(m, k, v) == [x \in DOMAIN m \cup {k} |-> IF x = k THEN v ELSE m[x]]

Statuses == {"passed", "failed", "skipped", "timedOut", "interrupted"}

\* TestStatusIcon[status] || 'help'
StatusIcon(status) ==
    CASE status = "passed" -> "check_circle"
      [] status = "failed" -> "cancel"
      [] status = "skipped" -> "remove_circle"
      [] status = "timedOut" -> "alarm_off"
      [] status = "interrupted" -> "block"
      [] OTHER -> "help"

\* the summary of one browser as first created
NewBrowserSummary ==
    [duration |-> "0s", status |-> "", statusIcon |-> "",
     total |-> 0, totalFailed |-> 0, totalFlaky |-> 0, totalPassed |-> 0, totalSkipped |-> 0,
     groupedResults |-> EmptyMap, wcagErrors |-> EmptyMap, totalA11yErrorCount |-> 0]

\* executionSummary as the field initialiser leaves it
InitialSummary ==
    [duration |-> "", status |-> "", statusIcon |-> "",
     total |-> 0, totalFailed |-> 0, totalFlaky |-> 0, totalPassed |-> 0, totalSkipped |-> 0,
     groupedResults |-> EmptyMap, wcagErrors |-> EmptyMap, totalA11yErrorCount |-> 0,
     browserSummaries |-> EmptyMap]

\* the reporter's fixed default colors
DefaultColors ==
    [critical |-> "#c92a2a", serious |-> "#e67700", moderate |-> "#ca8a04", minor |-> "#0891b2"]

\* the colors scanA11y writes into the payload (Severity.critical, ...)
ProducerColors ==
    [critical |-> "critical", serious |-> "serious", moderate |-> "moderate", minor |-> "minor"]

NoColors == [critical |-> NoValue, serious |-> NoValue, moderate |-> NoValue, minor |-> NoValue]

NoAdo == [present |-> FALSE, organization |-> NoValue, project |-> NoValue]

\* new SnapAllyReporter() with no options
DefaultOptions == [colors |-> NoColors, ado |-> NoAdo]

-----------------------------------------------------------------------------
(* Accessibility payloads                                                  *)

\* a payload as scanA11y attaches it: JSON text that parses to a ReportData.
\* errorsKind: "list" (errors is an array of records), "absent" (no errors
\* field), "notList" (a non-empty value that is no array).
Payload(hasKey, pageKey, errorsKind, errors) ==
    [hasKey |-> hasKey, pageKey |-> pageKey, errorsKind |-> errorsKind, errors |-> errors,
     colors |-> ProducerColors, adoOrganization |-> "", adoProject |-> "",
     video |-> "a11y-scan-video.webm"]

\* one entry of a11yDataSources. content: "json" (text that parses to data),
\* "null" (text that parses to null), "unparsable" (JSON.parse throws),
\* "missing" (an attachment with no body and no existing path).
Source(type, content, data) == [type |-> type, content |-> content, data |-> data]

\* lines 128-134: attachments named A11y first, then annotations of type A11y
A11yDataSources(input) == input.attachments \o input.annotations

-----------------------------------------------------------------------------
(* File names                                                              *)

AccessibilityPrefix == <<"a","c","c","e","s","s","i","b","i","l","i","t","y","-">>

ExecutionPrefix == <<"e","x","e","c","u","t","i","o","n","-">>

DotHtml == <<".","h","t","m","l">>

SummaryHtml == <<"s","u","m","m","a","r","y",".","h","t","m","l">>

\* TestFolderName with a fault: the sequence number is left out
TestFolderNameNoIndex(index, title) == SanitizeTitle(title)

\* `${this.testIndex}-${sanitizedTitle}`
TestFolderName(index, title) == DigitsOf(index) \o <<"-">> \o SanitizeTitle(title)

\* IndexSuffix with a fault: the position is never appended
IndexSuffixNever(index, count) == SubSeq(DigitsOf(index), 1, 0 * count)

\* IndexSuffix with a fault: the first source never gets a suffix
IndexSuffixAfterFirst(index, count) == IF index > 1 THEN <<"-">> \o DigitsOf(index) ELSE <<>>

\* the -<index + 1> of a report name, present when the test has several sources
IndexSuffix(index, count) == IF count > 1 THEN <<"-">> \o DigitsOf(index) ELSE <<>>

\* ReportName with a fault: an empty sanitized key is used as it is
ReportNameNoFallback(sanitizedTitle, data, index, count) ==
    IF data.hasKey /\ data.pageKey # <<>>
    THEN SanitizeKey(data.pageKey) \o IndexSuffix(index, count) \o DotHtml
    ELSE AccessibilityPrefix \o sanitizedTitle \o IndexSuffix(index, count) \o DotHtml

\* a11yReportName of the source at 1-based position index among count sources
ReportName(sanitizedTitle, data, index, count) ==
    LET generic == AccessibilityPrefix \o sanitizedTitle \o IndexSuffix(index, count) \o DotHtml
    IN  IF data.hasKey /\ data.pageKey # <<>>
        THEN LET sanitizedKey == SanitizeKey(data.pageKey)
             IN  IF sanitizedKey # <<>>
                 THEN sanitizedKey \o IndexSuffix(index, count) \o DotHtml
                 ELSE generic
        ELSE generic

\* `execution-${sanitizedTitle}.html`
ExecutionReportName(sanitizedTitle) == ExecutionPrefix \o sanitizedTitle \o DotHtml

-----------------------------------------------------------------------------
(* Configuration overlay                                                   *)

\* the four colors written into reportData and into the template's colors
ConfiguredColors(opts) ==
    [critical |-> OrElse(opts.colors.critical, DefaultColors.critical),
     serious |-> OrElse(opts.colors.serious, DefaultColors.serious),
     moderate |-> OrElse(opts.colors.moderate, DefaultColors.moderate),
     minor |-> OrElse(opts.colors.minor, DefaultColors.minor)]

\* ApplyConfiguration with a fault: a color the producer wrote is kept
ApplyConfigurationKeepProducer(opts, data) ==
    [data EXCEPT
        !.colors = [c \in DOMAIN data.colors |-> OrElse(@[c], ConfiguredColors(opts)[c])],
        !.adoOrganization = IF opts.ado.present THEN OrElse(opts.ado.organization, @) ELSE @,
        !.adoProject = IF opts.ado.present THEN OrElse(opts.ado.project, @) ELSE @]

\* "Re-apply configuration": colors always, ado when options.ado is there
ApplyConfiguration(opts, data) ==
    [data EXCEPT
        !.colors = ConfiguredColors(opts),
        !.adoOrganization = IF opts.ado.present THEN OrElse(opts.ado.organization, @) ELSE @,
        !.adoProject = IF opts.ado.present THEN OrElse(opts.ado.project, @) ELSE @]

\* StampVideo with a fault: the name is written even when there is no video
StampVideoAlways(video, data) == [data EXCEPT !.video = video]

\* "Sync video name"
StampVideo(video, data) == IF Truthy(video) THEN [data EXCEPT !.video = video] ELSE data

-----------------------------------------------------------------------------
(* Aggregation into the summaries                                          *)

\* test.parent.project()?.name || 'unknown'
Browser(input) == OrElse(input.test.project, "unknown")

\* path.relative(projectRoot, test.location.file)
FileGroup(input) == input.test.file

\* EnsureGroup with a fault: the group's list is created on every test-end event
EnsureGroupFresh(sum, group) == [sum EXCEPT !.groupedResults = Put(@, group, <<>>)]

\* lines 88-91: the group's list is created on first sighting
EnsureGroup(sum, group) ==
    IF group \in DOMAIN sum.groupedResults THEN sum
    ELSE [sum EXCEPT !.groupedResults = Put(@, group, <<>>)]

\* EnsureBrowser with a fault: the browser's summary is created on every sighting
EnsureBrowserFresh(sum, browser) ==
    [sum EXCEPT !.browserSummaries = Put(@, browser, NewBrowserSummary)]

\* lines 210-224 and 269-275: the browser's summary is created on first sighting
EnsureBrowser(sum, browser) ==
    IF browser \in DOMAIN sum.browserSummaries THEN sum
    ELSE [sum EXCEPT !.browserSummaries = Put(@, browser, NewBrowserSummary)]

\* errors.reduce((sum, err) => sum + (err.total || 0), 0)
RECURSIVE ScanErrorCount(_)
ScanErrorCount(errors) ==
    IF errors = <<>> THEN 0 ELSE Head(errors).total + ScanErrorCount(Tail(errors))

\* AddRule with a fault: the count is assigned, not added to
AddRuleOverwrite(wcagErrors, err) ==
    Put(wcagErrors, err.id, [count |-> err.total, severity |-> err.severity])

\* wcagErrors[rule] created with count 0 on first sight, then count += total
AddRule(wcagErrors, err) ==
    IF err.id \in DOMAIN wcagErrors
    THEN [wcagErrors EXCEPT ![err.id].count = @ + err.total]
    ELSE Put(wcagErrors, err.id, [count |-> err.total, severity |-> err.severity])

RECURSIVE FoldRules(_, _)
FoldRules(wcagErrors, errors) ==
    IF errors = <<>> THEN wcagErrors
    ELSE FoldRules(AddRule(wcagErrors, Head(errors)), Tail(errors))

\* FoldErrors with a fault: the browser's totalA11yErrorCount is left out
FoldErrorsRunTotalOnly(sum, browser, errors) ==
    [sum EXCEPT
        !.wcagErrors = FoldRules(@, errors),
        !.totalA11yErrorCount = @ + ScanErrorCount(errors),
        !.browserSummaries[browser].wcagErrors = FoldRules(@, errors)]

\* lines 227-263 for a payload whose errors is a non-empty list
FoldErrors(sum, browser, errors) ==
    LET scanErrorCount == ScanErrorCount(errors)
    IN  [sum EXCEPT
            !.wcagErrors = FoldRules(@, errors),
            !.totalA11yErrorCount = @ + scanErrorCount,
            !.browserSummaries[browser].wcagErrors = FoldRules(@, errors),
            !.browserSummaries[browser].totalA11yErrorCount = @ + scanErrorCount]

\* CountInBrowser with a fault: the switch has no case for skipped
CountInBrowserNoSkipped(bSummary, status) ==
    [bSummary EXCEPT
        !.total = @ + 1,
        !.totalPassed = IF status = "passed" THEN @ + 1 ELSE @,
        !.totalFailed = IF status = "failed" THEN @ + 1 ELSE @]

\* lines 278-283: the browser's counters
CountInBrowser(bSummary, status) ==
    [bSummary EXCEPT
        !.total = @ + 1,
        !.totalPassed = IF status = "passed" THEN @ + 1 ELSE @,
        !.totalFailed = IF status = "failed" THEN @ + 1 ELSE @,
        !.totalSkipped = IF status = "skipped" THEN @ + 1 ELSE @]

\* IsFlaky with a fault: the status is not looked at
IsFlakyAnyStatus(input) == input.attempts > 1

\* test.results.length > 1 && result.status === 'passed'
IsFlaky(input) == input.attempts > 1 /\ input.status = "passed"

\* CountInRun with a fault: total is counted inside the switch on the status
CountInRunInSwitch(sum, input) ==
    [sum EXCEPT
        !.totalFlaky = IF IsFlaky(input) THEN @ + 1 ELSE @,
        !.totalPassed = IF input.status = "passed" THEN @ + 1 ELSE @,
        !.totalFailed = IF input.status = "failed" THEN @ + 1 ELSE @,
        !.totalSkipped = IF input.status = "skipped" THEN @ + 1 ELSE @,
        !.total = IF input.status \in {"passed", "failed", "skipped"} THEN @ + 1 ELSE @]

\* lines 314-323: the run's counters
CountInRun(sum, input) ==
    [sum EXCEPT
        !.totalFlaky = IF IsFlaky(input) THEN @ + 1 ELSE @,
        !.totalPassed = IF input.status = "passed" THEN @ + 1 ELSE @,
        !.totalFailed = IF input.status = "failed" THEN @ + 1 ELSE @,
        !.totalSkipped = IF input.status = "skipped" THEN @ + 1 ELSE @,
        !.total = @ + 1]

-----------------------------------------------------------------------------
(* A11yTimeUtils.formatDuration over whole milliseconds                    *)

\* seconds.toFixed(1) as a number of tenths; tieUp is the direction in which
\* the double nearest to ms / 1000 falls when ms / 100 ends in .5
TenthsOfSeconds(ms, tieUp) ==
    (ms \div 100) + (IF (ms % 100) > 50 \/ ((ms % 100) = 50 /\ tieUp) THEN 1 ELSE 0)

\* remainingSeconds.toFixed(0): x.5 is a double, and toFixed takes the larger
WholeSeconds(ms) == (ms \div 1000) + (IF (ms % 1000) >= 500 THEN 1 ELSE 0)

FormatDuration(ms, tieUp) ==
    IF ms < 1000 THEN DigitsOf(ms) \o <<"m","s">>
    ELSE IF ms < 60000
         THEN DigitsOf(TenthsOfSeconds(ms, tieUp) \div 10) \o <<".">>
                  \o DigitsOf(TenthsOfSeconds(ms, tieUp) % 10) \o <<"s">>
         ELSE DigitsOf(ms \div 60000) \o <<"m"," ">> \o DigitsOf(WholeSeconds(ms % 60000)) \o <<"s">>

-----------------------------------------------------------------------------
(* processTestResult, cut at its awaits                                    *)

\* the locals of one processTestResult call, as they stand at its first await
NewTask(input, index) ==
    [input |-> input,
     folderName |-> TestFolderName(index, input.test.title),
     pc |-> "video",          \* video | scan | exec | done | failed
     video |-> "",
     i |-> 0,                 \* 1-based position of the source being rendered
     awaited |-> TRUE,        \* whether the awaited render promise is fulfilled
     a11yReportPath |-> <<>>, \* <<>>: undefined
     a11yErrorCount |-> 0,
     a11yErrors |-> <<>>,
     errorLogs |-> 0,         \* parse errors pushed to errorLogs
     rendered |-> <<>>]       \* what this call handed to the per-scan template

Outcome(task, sum, written) == [task |-> task, summary |-> sum, files |-> written]

File(folder, name) == [folder |-> folder, name |-> name]

\* renderer.render: runs to its end when called; the file is there iff it did not throw
Render(written, renderOk, file) == IF renderOk THEN written \cup {file} ELSE written

\* testStats.num: this.testIndex as it is when line 288 runs
NumOf(task, index) == index

\* TestStats with a fault: a11yErrorCount is the number of violation records
TestStatsCountsRecords(task, index) ==
    [num |-> NumOf(task, index),
     folderName |-> task.folderName,
     title |-> task.input.test.title,
     fileName |-> FileGroup(task.input),
     status |-> task.input.status,
     statusIcon |-> StatusIcon(task.input.status),
     browser |-> Browser(task.input),
     videoPath |-> task.video,
     errors |-> task.errorLogs,
     a11yReportPath |-> task.a11yReportPath,
     a11yErrorCount |-> Len(task.a11yErrors),
     a11yErrors |-> task.a11yErrors]

\* testStats
TestStats(task, index) ==
    [num |-> NumOf(task, index),
     folderName |-> task.folderName,
     title |-> task.input.test.title,
     fileName |-> FileGroup(task.input),
     status |-> task.input.status,
     statusIcon |-> StatusIcon(task.input.status),
     browser |-> Browser(task.input),
     videoPath |-> task.video,
     errors |-> task.errorLogs,
     a11yReportPath |-> task.a11yReportPath,
     a11yErrorCount |-> task.a11yErrorCount,
     a11yErrors |-> task.a11yErrors]

\* FinalAggregation with a fault: the execution page is rendered before the
\* counters and the record are written, which a failing render then prevents
FinalAggregationRenderFirst(task, sum, written, renderOk) ==
    LET browser == Browser(task.input)
        s1 == EnsureBrowser(sum, browser)
        s2 == [s1 EXCEPT !.browserSummaries[browser] = CountInBrowser(@, task.input.status)]
        s3 == [s2 EXCEPT !.groupedResults[FileGroup(task.input)] =
                              Append(@, TestStats(task, testIndex))]
        s4 == CountInRun(s3, task.input)
        file == File(task.folderName, ExecutionReportName(SanitizeTitle(task.input.test.title)))
    IN  Outcome([task EXCEPT !.pc = "exec", !.awaited = renderOk],
                IF renderOk THEN s4 ELSE sum, Render(written, renderOk, file))

\* lines 267-335: counters, the test record, the call of the execution render
FinalAggregation(task, sum, written, renderOk) ==
    LET browser == Browser(task.input)
        s1 == EnsureBrowser(sum, browser)
        s2 == [s1 EXCEPT !.browserSummaries[browser] = CountInBrowser(@, task.input.status)]
        s3 == [s2 EXCEPT !.groupedResults[FileGroup(task.input)] =
                              Append(@, TestStats(task, testIndex))]
        s4 == CountInRun(s3, task.input)
        file == File(task.folderName, ExecutionReportName(SanitizeTitle(task.input.test.title)))
    IN  Outcome([task EXCEPT !.pc = "exec", !.awaited = renderOk],
                s4, Render(written, renderOk, file))

\* TrackReportPath with a fault: the first name is kept
TrackFirstReportPath(a11yReportPath, a11yReportName) ==
    IF a11yReportPath = <<>> THEN a11yReportName ELSE a11yReportPath

\* line 190: a11yReportPath = a11yReportName
TrackReportPath(a11yReportPath, a11yReportName) == a11yReportName

\* the loop of lines 145-207 from the source at position i up to the next await
RECURSIVE RunSources(_, _, _, _, _)
RunSources(task, i, sum, written, renderOk) ==
    LET sources == A11yDataSources(task.input)
    IN  IF i > Len(sources) THEN FinalAggregation(task, sum, written, renderOk)
        ELSE CASE sources[i].content = "missing" ->
                      RunSources(task, i + 1, sum, written, renderOk)
               [] sources[i].content = "unparsable" ->
                      RunSources([task EXCEPT !.errorLogs = @ + 1], i + 1, sum, written, renderOk)
               [] sources[i].content = "null" ->
                      \* reportData.pageKey of null throws outside the try
                      Outcome([task EXCEPT !.pc = "failed"], sum, written)
               [] OTHER ->
                      LET name == ReportName(SanitizeTitle(task.input.test.title),
                                             sources[i].data, i, Len(sources))
                          data == StampVideo(task.video, ApplyConfiguration(options, sources[i].data))
                      IN  Outcome([task EXCEPT !.pc = "scan", !.i = i, !.awaited = renderOk,
                                               !.a11yReportPath = TrackReportPath(@, name),
                                               !.rendered = Append(@, [index |-> i, name |-> name,
                                                                       data |-> data])],
                                  sum, Render(written, renderOk, File(task.folderName, name)))

\* AfterScanRender with a fault: the loop goes on without folding the payload
AfterScanRenderSkipFold(task, sum, written, renderOk) ==
    IF ~task.awaited THEN Outcome([task EXCEPT !.pc = "failed"], sum, written)
    ELSE RunSources(task, task.i + 1, EnsureBrowser(sum, Browser(task.input)), written, renderOk)

\* lines 209-263 after the per-scan render, then the loop again
AfterScanRender(task, sum, written, renderOk) ==
    LET data == task.rendered[Len(task.rendered)].data
        browser == Browser(task.input)
        s1 == EnsureBrowser(sum, browser)
    IN  IF ~task.awaited THEN Outcome([task EXCEPT !.pc = "failed"], sum, written)
        ELSE IF data.errorsKind = "notList"
             \* errors.reduce is not a function
             THEN Outcome([task EXCEPT !.pc = "failed"], s1, written)
        ELSE IF data.errorsKind = "list" /\ data.errors # <<>>
             THEN RunSources([task EXCEPT !.a11yErrorCount = @ + ScanErrorCount(data.errors),
                                          !.a11yErrors = @ \o data.errors],
                             task.i + 1, FoldErrors(s1, browser, data.errors), written, renderOk)
        ELSE RunSources(task, task.i + 1, s1, written, renderOk)

-----------------------------------------------------------------------------
(* The driver's events and the resumption of each await                    *)

\* onTestEnd: the task is pushed having run up to its await of copyTestVideo
OnTestEnd(Inputs, limit) ==
    /\ onEnd.pc = "idle"
    /\ Len(tasks) < limit
    /\ \E input \in Inputs :
          /\ testIndex' = testIndex + 1
          /\ tasks' = Append(tasks, NewTask(input, testIndex + 1))
          /\ executionSummary' = EnsureGroup(executionSummary, FileGroup(input))
    /\ UNCHANGED <<options, onEnd, files, sanState, ovState, mergeState, videoState, copyState, scanState>>

\* Settle with a fault: the rejection of the awaited render is swallowed
SettleSwallowed(awaited) == IF awaited THEN "done" ELSE "done"

\* an async function ends at its last await: it is fulfilled when the awaited
\* render is, and rejected with the render's error otherwise
Settle(awaited) == IF awaited THEN "done" ELSE "failed"

Resume(k, outcome) ==
    /\ tasks' = [tasks EXCEPT ![k] = outcome.task]
    /\ executionSummary' = outcome.summary
    /\ files' = outcome.files
    /\ UNCHANGED <<options, testIndex, onEnd, sanState, ovState, mergeState, videoState, copyState, scanState>>

\* copyTestVideo has returned: lines 114-207 up to the first render, or to line 335
VideoDone(Videos) ==
    \E k \in DOMAIN tasks :
        /\ tasks[k].pc = "video"
        /\ \E video \in Videos, renderOk \in BOOLEAN :
              Resume(k, RunSources([tasks[k] EXCEPT !.video = video], 1,
                                   executionSummary, files, renderOk))

\* the await of a per-scan render has returned
ScanRenderDone ==
    \E k \in DOMAIN tasks :
        /\ tasks[k].pc = "scan"
        /\ \E renderOk \in BOOLEAN :
              Resume(k, AfterScanRender(tasks[k], executionSummary, files, renderOk))

\* the await of the execution render has returned: the task's promise settles
ExecRenderDone ==
    \E k \in DOMAIN tasks :
        /\ tasks[k].pc = "exec"
        /\ tasks' = [tasks EXCEPT ![k].pc = Settle(tasks[k].awaited)]
        /\ UNCHANGED <<options, testIndex, executionSummary, onEnd, files, sanState, ovState, mergeState, videoState, copyState, scanState>>

\* onEnd is called: it runs up to await Promise.all(this.tasks)
OnEnd(Results) ==
    /\ onEnd.pc = "idle"
    /\ \E result \in Results : onEnd' = [pc |-> "awaiting", result |-> result, awaited |-> TRUE]
    /\ UNCHANGED <<options, testIndex, tasks, executionSummary, files, sanState, ovState, mergeState, videoState, copyState, scanState>>

\* AllFulfilled with a fault: the tasks are not awaited
AllFulfilledUnawaited(ts) == Len(ts) >= 0

\* Promise.all(tasks) is fulfilled
AllFulfilled(ts) == \A k \in DOMAIN ts : ts[k].pc = "done"

\* Promise.all(tasks) is rejected
SomeRejected(ts) == \E k \in DOMAIN ts : ts[k].pc = "failed"

\* lines 342-354: the summary is stamped and its render called
OnEndResume ==
    /\ onEnd.pc = "awaiting"
    /\ AllFulfilled(tasks)
    /\ \E renderOk \in BOOLEAN, tieUp \in BOOLEAN :
          /\ executionSummary' =
                 [executionSummary EXCEPT
                     !.duration = FormatDuration(onEnd.result.duration, tieUp),
                     !.status = onEnd.result.status,
                     !.statusIcon = StatusIcon(onEnd.result.status)]
          /\ files' = Render(files, renderOk, File(<<>>, SummaryHtml))
          /\ onEnd' = [onEnd EXCEPT !.pc = "render", !.awaited = renderOk]
    /\ UNCHANGED <<options, testIndex, tasks, sanState, ovState, mergeState, videoState, copyState, scanState>>

\* a task has failed: the await throws and onEnd ends there
OnEndReject ==
    /\ onEnd.pc = "awaiting"
    /\ SomeRejected(tasks)
    /\ onEnd' = [onEnd EXCEPT !.pc = "failed"]
    /\ UNCHANGED <<options, testIndex, tasks, executionSummary, files, sanState, ovState, mergeState, videoState, copyState, scanState>>

\* the await of the summary render has returned
OnEndDone ==
    /\ onEnd.pc = "render"
    /\ onEnd' = [onEnd EXCEPT !.pc = Settle(onEnd.awaited)]
    /\ UNCHANGED <<options, testIndex, tasks, executionSummary, files, sanState, ovState, mergeState, videoState, copyState, scanState>>

-----------------------------------------------------------------------------
(* Inputs of the run                                                       *)

TitleA == <<"A","!">>

TitleB == <<"a"," ">>

\* test cases of the suite: title, file relative to the root, project name.
\* The titles sanitize to the same text; the second project has no name.
\* one TestStep of result.steps
Step(title, category, steps) == [title |-> title, category |-> category, steps |-> steps]

\* a trace of the driver: a test.step holding a hook and a nested test.step
NestedTrace ==
    <<Step("Open menu", "test.step",
           <<Step("Before Hooks", "hook", <<>>), Step("Click item", "test.step", <<>>)>>)>>

\* the tests of the run; steps is result.steps of the test's run
TestCases ==
    {[title |-> TitleA, file |-> "a.spec.ts", project |-> "chromium", steps |-> NestedTrace],
     [title |-> TitleB, file |-> "b.spec.ts", project |-> "", steps |-> <<>>]}

\* a Target as the scanner writes it, with the annotation steps of the test
Target(steps) == [element |-> "#a", steps |-> steps]

\* an A11yError with one target per counted node
Err(id, total) ==
    [id |-> id, total |-> total, severity |-> "serious",
     target |-> [n \in 1..total |-> Target(<<"Open menu">>)]]

KeyHome == <<"H","o">>

SrcOne == Source("attachment", "json", Payload(TRUE, KeyHome, "list", <<Err("image-alt", 3)>>))

SrcTwo == Source("annotation", "json",
                 Payload(FALSE, <<>>, "list", <<Err("image-alt", 3), Err("label", 1)>>))

SrcClean == Source("attachment", "json", Payload(TRUE, KeyHome, "list", <<>>))

SrcUnparsable == Source("attachment", "unparsable", Payload(FALSE, <<>>, "absent", <<>>))

SrcNull == Source("attachment", "null", Payload(FALSE, <<>>, "absent", <<>>))

SrcNotList == Source("attachment", "json", Payload(FALSE, <<>>, "notList", <<>>))

SrcMissing == Source("attachment", "missing", Payload(FALSE, <<>>, "absent", <<>>))

MainSources == {SrcOne, SrcTwo, SrcClean, SrcUnparsable, SrcNull}

\* sequences of at most n elements of S
SeqsUpTo(S, n) == UNION {[1..m -> S] : m \in 0..n}

\* the sources of a test, split as a11yDataSources orders them
SplitSources(list) ==
    [attachments |-> SelectSeq(list, LAMBDA x : x.type = "attachment"),
     annotations |-> SelectSeq(list, LAMBDA x : x.type = "annotation")]

TestInput(test, status, attempts, list) ==
    [test |-> test, status |-> status, attempts |-> attempts,
     attachments |-> SplitSources(list).attachments,
     annotations |-> SplitSources(list).annotations]

\* test-end events of the run: every outcome of a test without a scan, and
\* every list of scans of a test that failed at its first attempt
MainInputs ==
    {TestInput(t, s, a, <<>>) : t \in TestCases, s \in Statuses, a \in 1..MaxAttempts}
    \cup {TestInput(t, "failed", 1, l) : t \in TestCases, l \in SeqsUpTo(MainSources, MaxSources)}

RunResults == {[status |-> "failed", duration |-> 61500]}

-----------------------------------------------------------------------------
(* The run of the reporter                                                 *)

IdleOnEnd == [pc |-> "idle", result |-> [status |-> "", duration |-> 0], awaited |-> TRUE]

IdleSan == [input |-> <<>>, output |-> <<>>, done |-> FALSE]

IdleOv == [opts |-> DefaultOptions, data |-> Payload(FALSE, <<>>, "absent", <<>>),
           output |-> Payload(FALSE, <<>>, "absent", <<>>), done |-> FALSE]

InitReporter(opts) ==
    /\ options = opts
    /\ testIndex = 0
    /\ tasks = <<>>
    /\ executionSummary = InitialSummary
    /\ onEnd = IdleOnEnd
    /\ files = {}

IdleMerge == [steps |-> <<>>, trace |-> <<>>, output |-> <<>>, done |-> FALSE]

IdleVideo ==
    [attachments |-> <<>>, pc |-> "idle", index |-> 0, attempts |-> 0, checks |-> <<>>,
     readySize |-> <<>>, bestVideo |-> 0, maxSize |-> -1, result |-> <<>>, copied |-> FALSE]

IdleCopy ==
    [attachments |-> <<>>, pc |-> "idle", folders |-> {}, copied |-> {},
     screenshots |-> <<>>, pngAttachments |-> <<>>, otherAttachments |-> <<>>]

IdleScan == [violations |-> <<>>, attachments |-> <<>>, done |-> FALSE]

\* the state of the functions that are not running
IdleSanOv == sanState = IdleSan /\ ovState = IdleOv

IdleAssets == mergeState = IdleMerge /\ videoState = IdleVideo /\ copyState = IdleCopy

Init == InitReporter(DefaultOptions) /\ IdleSanOv /\ IdleAssets /\ scanState = IdleScan

Next ==
    \/ OnTestEnd(MainInputs, MaxTests)
    \/ VideoDone({""})
    \/ ScanRenderDone
    \/ ExecRenderDone
    \/ OnEnd(RunResults)
    \/ OnEndResume
    \/ OnEndReject
    \/ OnEndDone

Spec == Init /\ [][Next]_vars

-----------------------------------------------------------------------------
(* Properties of the run                                                   *)

Range(f) == {f[x] : x \in DOMAIN f}

\* the test records of the summary, over all groups
AllRecords == UNION {Range(executionSummary.groupedResults[g]) : g \in DOMAIN executionSummary.groupedResults}

Pending(task) == task.pc \in {"video", "scan", "exec"}

AllDone == \A k \in DOMAIN tasks : tasks[k].pc = "done"

SummaryWritten == File(<<>>, SummaryHtml) \in files

SummaryStamped == executionSummary.status # "" \/ executionSummary.duration # ""

\* C1: the summary is neither stamped nor rendered while a per-test task is
\* pending: whenever onEnd has gone past its await, every task has completed.
C1_SummaryAfterEveryTask ==
    (SummaryWritten \/ SummaryStamped \/ onEnd.pc \in {"render", "done"})
        => \A k \in DOMAIN tasks : ~Pending(tasks[k]) /\ tasks[k].pc # "failed"

\* C1 happens: the summary is written after two tasks that each rendered a scan
C1_Witness ==
    /\ SummaryWritten
    /\ Len(tasks) >= 2
    /\ \A k \in DOMAIN tasks : tasks[k].rendered # <<>>

RuleIds == {"image-alt", "label"}

BrowserKeys == {Browser([test |-> t]) : t \in TestCases}

RECURSIVE RuleTotal(_, _)
RuleTotal(errors, rule) ==
    IF errors = <<>> THEN 0
    ELSE (IF Head(errors).id = rule THEN Head(errors).total ELSE 0) + RuleTotal(Tail(errors), rule)

\* the totals of a rule over the payloads of a list of sources that parse
RECURSIVE SourcesTotal(_, _)
SourcesTotal(sources, rule) ==
    IF sources = <<>> THEN 0
    ELSE (IF Head(sources).content = "json" /\ Head(sources).data.errorsKind = "list"
          THEN RuleTotal(Head(sources).data.errors, rule) ELSE 0)
         + SourcesTotal(Tail(sources), rule)

\* the totals of a rule over the tests run on one of the browsers
RECURSIVE TasksTotal(_, _, _)
TasksTotal(ts, rule, browsers) ==
    IF ts = <<>> THEN 0
    ELSE (IF Browser(Head(ts).input) \in browsers
          THEN SourcesTotal(A11yDataSources(Head(ts).input), rule) ELSE 0)
         + TasksTotal(Tail(ts), rule, browsers)

CountIn(wcagErrors, rule) == IF rule \in DOMAIN wcagErrors THEN wcagErrors[rule].count ELSE 0

BrowserCount(browser, rule) ==
    IF browser \in DOMAIN executionSummary.browserSummaries
    THEN CountIn(executionSummary.browserSummaries[browser].wcagErrors, rule)
    ELSE 0

\* C2: once every task has completed successfully, the count of each rule is
\* the sum of total over all parsed payloads of all tests, in the run's
\* summary, and over the tests of a browser in that browser's summary.
C2_RuleCountsAdditive ==
    AllDone =>
        \A rule \in RuleIds :
            /\ CountIn(executionSummary.wcagErrors, rule) = TasksTotal(tasks, rule, BrowserKeys)
            /\ \A b \in BrowserKeys : BrowserCount(b, rule) = TasksTotal(tasks, rule, {b})

\* C2 happens: scans with total 3 for one rule, in two tests on two browsers,
\* one of them carrying two scans
C2_Witness ==
    /\ AllDone
    /\ Len(tasks) = 2
    /\ CountIn(executionSummary.wcagErrors, "image-alt") = 9
    /\ BrowserCount("chromium", "image-alt") = 6
    /\ BrowserCount("unknown", "image-alt") = 3

\* C3: the record of the k-th test-end event has num = k, the number its
\* folder name starts with.
C3_NumIsEventOrder ==
    \A rec \in AllRecords : \A k \in DOMAIN tasks :
        rec.folderName = tasks[k].folderName => rec.num = k

SumOverBrowsers(counter) ==
    LET bs == executionSummary.browserSummaries
        RECURSIVE SumOf(_)
        SumOf(keys) == IF keys = {} THEN 0
                       ELSE LET b == CHOOSE x \in keys : TRUE
                            IN  bs[b][counter] + SumOf(keys \ {b})
    IN  SumOf(DOMAIN bs)

\* C4: after all tasks complete, each of the five test counters of the run's
\* summary is the sum of that counter over the browser summaries.
C4_RunCountersSumBrowsers ==
    AllDone =>
        \A counter \in {"total", "totalPassed", "totalFailed", "totalSkipped", "totalFlaky"} :
            executionSummary[counter] = SumOverBrowsers(counter)

\* the tasks whose test record is in the summary
Aggregated == {k \in DOMAIN tasks : \E rec \in AllRecords : rec.folderName = tasks[k].folderName}

\* C5: totalFlaky counts exactly the aggregated test-end events of a test
\* with more than one attempt whose status is passed.
C5_FlakyIffRetriedAndPassed ==
    executionSummary.totalFlaky =
        Cardinality({k \in Aggregated : tasks[k].input.attempts > 1 /\ tasks[k].input.status = "passed"})

\* C5 happens: a retried test that passed and a retried test that failed are
\* both aggregated, and one is counted
C5_Witness ==
    /\ executionSummary.totalFlaky = 1
    /\ \E k \in Aggregated : tasks[k].input.attempts > 1 /\ tasks[k].input.status = "passed"
    /\ \E k \in Aggregated : tasks[k].input.attempts > 1 /\ tasks[k].input.status = "failed"

\* C6: a malformed payload never fails the task: a task fails only when a
\* render it awaited was rejected.
C6_MalformedPayloadSkippedAlone ==
    \A k \in DOMAIN tasks : tasks[k].pc = "failed" => ~tasks[k].awaited

-----------------------------------------------------------------------------
(* One test with many kinds of sources                                     *)

KeyBang == <<"!","!">>

KeyHomeBang == <<"h","o","!">>

KeyHomeTwo == <<"h","o","-","2">>

KeyedSource(hasKey, pageKey) ==
    Source("attachment", "json", Payload(hasKey, pageKey, "list", <<Err("image-alt", 3)>>))

\* page keys: absent, empty, all punctuation, a bare protocol, two that
\* sanitize to the same text, one that ends like an index suffix
KeyedSources ==
    {KeyedSource(FALSE, <<>>), KeyedSource(TRUE, <<>>), KeyedSource(TRUE, KeyBang),
     KeyedSource(TRUE, Http), KeyedSource(TRUE, KeyHome), KeyedSource(TRUE, KeyHomeBang),
     KeyedSource(TRUE, KeyHomeTwo)}

OneTestSources == KeyedSources \cup {SrcTwo, SrcClean, SrcUnparsable, SrcNull, SrcNotList, SrcMissing}

OneTestInputs ==
    {TestInput(t, "failed", 1, l) : t \in TestCases, l \in SeqsUpTo(OneTestSources, MaxSources)}

\* what copyTestVideo returns: no video, or the name of the copied file
VideoResults == {"", "video.webm"}

NextOneTest ==
    \/ OnTestEnd(OneTestInputs, 1)
    \/ VideoDone(VideoResults)
    \/ ScanRenderDone
    \/ ExecRenderDone

\* a run of one test-end event, over many kinds of sources
SpecOneTest == Init /\ [][NextOneTest]_vars

\* the name ends with -<index>.html
EndsWithIndex(name, index) ==
    LET tail == <<"-">> \o DigitsOf(index) \o DotHtml
    IN  Len(name) >= Len(tail) /\ SubSeq(name, Len(name) - Len(tail) + 1, Len(name)) = tail

\* C7: the per-scan reports of a test with several payloads have pairwise
\* distinct names, the payload at position i carrying the suffix -i.
C7_ScanNamesDistinct ==
    \A k \in DOMAIN tasks :
        LET r == tasks[k].rendered
        IN  /\ \A a, b \in DOMAIN r : a # b => r[a].name # r[b].name
            /\ Len(A11yDataSources(tasks[k].input)) > 1 =>
                   \A a \in DOMAIN r : EndsWithIndex(r[a].name, r[a].index)

\* C7 happens: two payloads whose sanitized keys are the same are both written
C7_Witness ==
    \E k \in DOMAIN tasks :
        LET r == tasks[k].rendered
        IN  /\ Len(r) = 2
            /\ r[1].data.hasKey /\ r[2].data.hasKey
            /\ r[1].data.pageKey # r[2].data.pageKey
            /\ SanitizeKey(r[1].data.pageKey) = SanitizeKey(r[2].data.pageKey)
            /\ SanitizeKey(r[1].data.pageKey) # <<>>
            /\ File(tasks[k].folderName, r[1].name) \in files
            /\ File(tasks[k].folderName, r[2].name) \in files

\* the page key is absent, empty, or sanitizes to the empty string
NoUsableKey(data) == ~data.hasKey \/ SanitizeKey(data.pageKey) = <<>>

\* C9: a payload with no usable page key is named accessibility-<sanitized
\* title>[-i].html; any other is named <sanitized key>[-i].html.
C9_GenericNameFallback ==
    \A k \in DOMAIN tasks : \A a \in DOMAIN tasks[k].rendered :
        LET r == tasks[k].rendered[a]
            suffix == (IF Len(A11yDataSources(tasks[k].input)) > 1
                       THEN <<"-">> \o DigitsOf(r.index) ELSE <<>>) \o DotHtml
        IN  r.name = IF NoUsableKey(r.data)
                     THEN AccessibilityPrefix \o SanitizeTitle(tasks[k].input.test.title) \o suffix
                     ELSE SanitizeKey(r.data.pageKey) \o suffix

\* C9 happens: a test renders an all-punctuation key under the generic name
\* and a usable key under its own name
C9_Witness ==
    \E k \in DOMAIN tasks :
        LET r == tasks[k].rendered
        IN  /\ Len(r) = 2
            /\ r[1].data.hasKey /\ r[1].data.pageKey = KeyBang
            /\ HasPrefix(r[1].name, AccessibilityPrefix)
            /\ ~NoUsableKey(r[2].data)
            /\ ~HasPrefix(r[2].name, AccessibilityPrefix)

-----------------------------------------------------------------------------
(* Sanitizing one page key                                                 *)

KeyTokens ==
    {Https, Http, <<"A">>, <<"b">>, <<"1">>, <<"-">>, <<"!">>, <<" ","/">>, <<".">>}

ExampleKey ==
    <<"h","t","t","p","s",":","/","/","E","x","a","m","p","l","e",".","c","o","m","/",
      "H","o","m","e"," ","P","a","g","e","!","!">>

ExampleName ==
    <<"e","x","a","m","p","l","e","-","c","o","m","-","h","o","m","e","-","p","a","g","e">>

\* page keys: every string of at most MaxKeyTokens tokens, and the example
KeyInputs == {Concat(ts) : ts \in SeqsUpTo(KeyTokens, MaxKeyTokens)} \cup {ExampleKey}

InitSanitize ==
    /\ InitReporter(DefaultOptions)
    /\ sanState \in [input : KeyInputs, output : {<<>>}, done : {FALSE}]
    /\ ovState = IdleOv
    /\ IdleAssets /\ scanState = IdleScan

Sanitize ==
    /\ ~sanState.done
    /\ sanState' = [sanState EXCEPT !.output = SanitizeKey(sanState.input), !.done = TRUE]
    /\ UNCHANGED <<options, testIndex, tasks, executionSummary, onEnd, files, ovState, mergeState, videoState, copyState, scanState>>

NextSanitize == Sanitize

SpecSanitize == InitSanitize /\ [][NextSanitize]_vars

\* the maximal runs of letters and digits of a string, in order
RECURSIVE Words(_, _)
Words(s, word) ==
    IF s = <<>> THEN (IF word = <<>> THEN <<>> ELSE <<word>>)
    ELSE IF IsAlnum(Head(s)) THEN Words(Tail(s), Append(word, Head(s)))
    ELSE (IF word = <<>> THEN <<>> ELSE <<word>>) \o Words(Tail(s), <<>>)

RECURSIVE JoinHyphen(_)
JoinHyphen(ws) ==
    IF ws = <<>> THEN <<>>
    ELSE IF Len(ws) = 1 THEN ws[1]
    ELSE ws[1] \o <<"-">> \o JoinHyphen(Tail(ws))

\* C8: the sanitized key is the runs of letters and digits of the key without
\* its first protocol, lower-cased and joined by single hyphens: only
\* [a-z0-9-], no leading, trailing or doubled hyphen; the example key yields
\* example-com-home-page.
C8_SanitizedKeyShape ==
    sanState.done =>
        LET out == sanState.output
        IN  /\ \A i \in DOMAIN out : IsLower(out[i]) \/ IsDigit(out[i]) \/ out[i] = "-"
            /\ out # <<>> => out[1] # "-" /\ out[Len(out)] # "-"
            /\ \A i \in 1..(Len(out) - 1) : ~(out[i] = "-" /\ out[i + 1] = "-")
            /\ out = JoinHyphen(Words(ToLowerCase(StripProtocol(sanState.input)), <<>>))
            /\ sanState.input = ExampleKey => out = ExampleName

\* C8 happens: the example key has been sanitized
C8_Witness == sanState.done /\ sanState.input = ExampleKey /\ sanState.output = ExampleName

-----------------------------------------------------------------------------
(* Overlaying the configuration on one payload                             *)

ConfigValues == {NoValue, "", "#123456"}

AdoValues == {NoValue, "", "cfg"}

ProducerAdoValues == {NoValue, "", "env"}

OverlayOptions ==
    [colors : [critical : ConfigValues, serious : ConfigValues,
               moderate : ConfigValues, minor : ConfigValues],
     ado : {NoAdo} \cup [present : {TRUE}, organization : AdoValues, project : AdoValues]]

ProducerPayloads ==
    {[Payload(TRUE, KeyHome, "list", <<>>) EXCEPT !.adoOrganization = o, !.adoProject = p] :
        o \in ProducerAdoValues, p \in ProducerAdoValues}

InitOverlay ==
    /\ InitReporter(DefaultOptions)
    /\ sanState = IdleSan
    /\ IdleAssets /\ scanState = IdleScan
    /\ \E o \in OverlayOptions, d \in ProducerPayloads :
          ovState = [opts |-> o, data |-> d, output |-> d, done |-> FALSE]

Overlay ==
    /\ ~ovState.done
    /\ ovState' = [ovState EXCEPT !.output = ApplyConfiguration(ovState.opts, ovState.data),
                                  !.done = TRUE]
    /\ UNCHANGED <<options, testIndex, tasks, executionSummary, onEnd, files, sanState, mergeState, videoState, copyState, scanState>>

NextOverlay == Overlay

SpecOverlay == InitOverlay /\ [][NextOverlay]_vars

ColorNames == {"critical", "serious", "moderate", "minor"}

\* C10: in the payload handed to the renderer each color is the configured
\* color when one (a non-empty string) is configured and the reporter's
\* default otherwise, and the issue-tracker organization and project are the
\* configured value when a non-empty one is configured and the producer's
\* value otherwise.
C10_ConfigurationWins ==
    ovState.done =>
        LET cfg == ovState.opts
            out == ovState.output
        IN  /\ \A c \in ColorNames :
                   out.colors[c] = IF cfg.colors[c] \notin {NoValue, ""}
                                   THEN cfg.colors[c] ELSE DefaultColors[c]
            /\ out.adoOrganization =
                   IF cfg.ado.present /\ cfg.ado.organization \notin {NoValue, ""}
                   THEN cfg.ado.organization ELSE ovState.data.adoOrganization
            /\ out.adoProject =
                   IF cfg.ado.present /\ cfg.ado.project \notin {NoValue, ""}
                   THEN cfg.ado.project ELSE ovState.data.adoProject

\* C10 happens: one color configured and one not, the organization
\* configured and the project left to the producer
C10_Witness ==
    /\ ovState.done
    /\ ovState.opts.colors.critical = "#123456" /\ ovState.output.colors.critical = "#123456"
    /\ ovState.opts.colors.serious = NoValue /\ ovState.output.colors.serious = DefaultColors.serious
    /\ ovState.data.colors.serious = "serious"
    /\ ovState.opts.ado.organization = "cfg" /\ ovState.data.adoOrganization = "env"
    /\ ovState.output.adoOrganization = "cfg"
    /\ ovState.opts.ado.project = "" /\ ovState.output.adoProject = "env"

-----------------------------------------------------------------------------
(* The a11y report reference of a test record                              *)

\* the positions of the sources of a test whose payload parses
ParsedPositions(input) ==
    {i \in DOMAIN A11yDataSources(input) : A11yDataSources(input)[i].content = "json"}

Max(S) == CHOOSE x \in S : \A y \in S : y <= x

\* the record of a task in the summary
RecordsOf(task) == {rec \in AllRecords : rec.folderName = task.folderName}

\* C11: the a11y report reference of a test record is the name computed for
\* the last parsed payload of the test, and is absent when no payload parsed.
C11_ReportPathIsLastPayload ==
    \A k \in DOMAIN tasks : \A rec \in RecordsOf(tasks[k]) :
        LET input == tasks[k].input
            sources == A11yDataSources(input)
            parsed == ParsedPositions(input)
        IN  rec.a11yReportPath =
                IF parsed = {} THEN <<>>
                ELSE ReportName(SanitizeTitle(input.test.title), sources[Max(parsed)].data,
                                Max(parsed), Len(sources))

\* C11 happens: a record of a test whose two parsed payloads have different
\* names refers to the second
C11_Witness ==
    \E k \in DOMAIN tasks : \E rec \in RecordsOf(tasks[k]) :
        /\ Len(tasks[k].rendered) = 2
        /\ tasks[k].rendered[1].name # tasks[k].rendered[2].name
        /\ rec.a11yReportPath = tasks[k].rendered[2].name
        /\ ~NoUsableKey(tasks[k].rendered[1].data)

-----------------------------------------------------------------------------
(* The step trace of the driver                                            *)

\* getTestSteps: the titles of the test.step entries, depth-first in order
RECURSIVE GetTestSteps(_)
GetTestSteps(testSteps) ==
    IF testSteps = <<>> THEN <<>>
    ELSE (IF Head(testSteps).category = "test.step" THEN <<Head(testSteps).title>> ELSE <<>>)
         \o GetTestSteps(Head(testSteps).steps)
         \o GetTestSteps(Tail(testSteps))

\* the targets of a payload handed to the renderer
RenderedTargets(data) ==
    IF data.errorsKind = "list"
    THEN UNION {Range(data.errors[e].target) : e \in DOMAIN data.errors}
    ELSE {}

\* C12: in every payload handed to the per-scan template, each target's step
\* list contains every step title of the driver's flattened trace.
C12_RenderedStepsMerged ==
    \A k \in DOMAIN tasks : \A a \in DOMAIN tasks[k].rendered :
        \A target \in RenderedTargets(tasks[k].rendered[a].data) :
            Range(GetTestSteps(tasks[k].input.test.steps)) \subseteq Range(target.steps)

-----------------------------------------------------------------------------
(* Merging the driver's steps into a target (the legacy reporter)          *)

\* lines 485-490: a driver step is pushed when the set built from the
\* target's steps before the loop does not hold it
MergeSteps(targetSteps, playwrightSteps) ==
    targetSteps \o SelectSeq(playwrightSteps, LAMBDA step : step \notin Range(targetSteps))

StepTitles == {"Open menu", "Click item"}

StepCategories == {"test.step", "hook"}

LeafSteps == {Step(t, c, <<>>) : t \in StepTitles, c \in StepCategories}

\* steps with at most one level below them
TraceSteps == LeafSteps \cup {Step(t, c, <<l>>) : t \in StepTitles, c \in StepCategories, l \in LeafSteps}

InitMerge ==
    /\ InitReporter(DefaultOptions)
    /\ IdleSanOv
    /\ videoState = IdleVideo /\ copyState = IdleCopy /\ scanState = IdleScan
    /\ \E steps \in SeqsUpTo(StepTitles, MaxSteps), trace \in SeqsUpTo(TraceSteps, MaxSteps) :
          mergeState = [steps |-> steps, trace |-> trace, output |-> steps, done |-> FALSE]

\* lines 479-493 for one target: the merge runs when the flattened trace is not empty
Merge ==
    /\ ~mergeState.done
    /\ mergeState' =
           [mergeState EXCEPT
               !.output = IF GetTestSteps(mergeState.trace) # <<>>
                          THEN MergeSteps(mergeState.steps, GetTestSteps(mergeState.trace))
                          ELSE mergeState.steps,
               !.done = TRUE]
    /\ UNCHANGED <<options, testIndex, tasks, executionSummary, onEnd, files, sanState, ovState,
                   videoState, copyState, scanState>>

NextMerge == Merge

SpecMerge == InitMerge /\ [][NextMerge]_vars

\* the list followed by the steps not yet in it, each once
RECURSIVE AppendNew(_, _)
AppendNew(list, steps) ==
    IF steps = <<>> THEN list
    ELSE AppendNew(IF Head(steps) \in Range(list) THEN list ELSE Append(list, Head(steps)),
                   Tail(steps))

\* the number of positions of a list that hold a text
Occurrences(list, text) == Cardinality({i \in DOMAIN list : list[i] = text})

\* C13: the merged step list of a target is its steps, unchanged and in
\* order, followed by the driver's flattened steps whose text is not yet in
\* the list, each appended once in trace order; no text the target did not
\* already hold twice is twice in the merged list.
C13_MergedStepList ==
    mergeState.done =>
        LET flat == GetTestSteps(mergeState.trace)
            out == mergeState.output
        IN  /\ out = AppendNew(mergeState.steps, flat)
            /\ \A t \in StepTitles :
                   Occurrences(out, t) > 1 => Occurrences(mergeState.steps, t) > 1
            /\ (mergeState.steps = <<"Open menu">> /\ flat = <<"Open menu", "Click item">>)
                   => out = <<"Open menu", "Click item">>

-----------------------------------------------------------------------------
(* copyTestVideo                                                           *)

\* line 45: while (attempts < 10)
MaxPollAttempts == 10

\* KeepPolling with a fault: one more check is made
KeepPollingOnceMore(attempts) == attempts <= MaxPollAttempts

KeepPolling(attempts) == attempts < MaxPollAttempts

\* IsLarger with a fault: a tie replaces the video chosen so far
IsLargerOrEqual(size, maxSize) == size >= maxSize

\* line 63: size > maxSize
IsLarger(size, maxSize) == size > maxSize

\* the path of the video attachment at a position
VideoPath(i) == <<"/","v","/">> \o DigitsOf(i) \o <<".","w","e","b","m">>

\* path.basename: what follows the last separator
RECURSIVE Basename(_)
Basename(p) ==
    IF \E i \in DOMAIN p : p[i] = "/"
    THEN Basename(Tail(p))
    ELSE p

\* a video attachment: whether it has a path, and the byte size of its file
\* once the producer has flushed it (0: it never gets content)
VideoKinds == [hasPath : BOOLEAN, size : {0, 512, 2048}] \ [hasPath : {FALSE}, size : {512, 2048}]

\* line 40 and the loop header: move to the next attachment that has a path
RECURSIVE NextCandidate(_, _)
NextCandidate(attachments, i) ==
    IF i > Len(attachments) THEN i
    ELSE IF attachments[i].hasPath THEN i
    ELSE NextCandidate(attachments, i + 1)

\* the loop turns to the attachment after the current one
Advance(v) ==
    LET next == NextCandidate(v.attachments, v.index + 1)
    IN  [v EXCEPT !.index = next, !.attempts = 0,
                  !.pc = IF next > Len(v.attachments) THEN "copy" ELSE "poll"]

\* lines 33-37: the call of copyTestVideo, up to its first readiness check
StartVideo(attachments) ==
    Advance([IdleVideo EXCEPT !.attachments = attachments,
                              !.checks = [i \in DOMAIN attachments |-> 0],
                              !.readySize = [i \in DOMAIN attachments |-> 0]])

InitVideo ==
    /\ InitReporter(DefaultOptions)
    /\ IdleSanOv
    /\ mergeState = IdleMerge /\ copyState = IdleCopy /\ scanState = IdleScan
    /\ \E attachments \in SeqsUpTo(VideoKinds, MaxVideos) : videoState = StartVideo(attachments)

UnchangedByVideo ==
    UNCHANGED <<options, testIndex, tasks, executionSummary, onEnd, files, sanState, ovState,
                mergeState, copyState, scanState>>

\* lines 45-72, one readiness check of the current candidate: the file is
\* there with content (then lines 60-66 follow) or it is not (then the 200 ms
\* wait, or lines 70-72 after the last attempt)
VideoCheck ==
    /\ videoState.pc = "poll"
    /\ LET i == videoState.index
           size == videoState.attachments[i].size
           checked == [videoState EXCEPT !.checks[i] = @ + 1]
       IN  IF ~KeepPolling(videoState.attempts)
           THEN videoState' = Advance(videoState)
           ELSE \E flushed \in BOOLEAN :
                   videoState' =
                       IF flushed /\ size > 0
                       THEN Advance([checked EXCEPT
                                !.readySize[i] = size,
                                !.maxSize = IF IsLarger(size, @) THEN size ELSE @,
                                !.bestVideo = IF IsLarger(size, videoState.maxSize) THEN i ELSE @])
                       ELSE [checked EXCEPT !.attempts = @ + 1]
    /\ UnchangedByVideo

\* lines 75-83: the chosen video is copied (copyToFolder returns its base
\* name), or mkdir or copyFileSync throws and the catch of line 78 returns the
\* base name all the same; without a chosen video '' is returned
VideoReturn ==
    /\ videoState.pc = "copy"
    /\ \E thrown \in BOOLEAN :
          videoState' =
              [videoState EXCEPT
                  !.pc = "returned",
                  !.copied = videoState.bestVideo # 0 /\ ~thrown,
                  !.result = IF videoState.bestVideo # 0
                             THEN Basename(VideoPath(videoState.bestVideo)) ELSE <<>>]
    /\ UnchangedByVideo

NextVideo == VideoCheck \/ VideoReturn

SpecVideo == InitVideo /\ [][NextVideo]_vars

\* the timers of the poll fire and the function runs on
SpecVideoFair == SpecVideo /\ WF_vars(NextVideo)

\* the candidates found ready
ReadyVideos == {i \in DOMAIN videoState.attachments : videoState.readySize[i] > 0}

\* the first of the largest ready candidates
LargestReady ==
    CHOOSE i \in ReadyVideos :
        \A j \in ReadyVideos :
            \/ videoState.readySize[j] < videoState.readySize[i]
            \/ (videoState.readySize[j] = videoState.readySize[i] /\ i <= j)

\* C14: copyTestVideo returns the video with the largest byte size among the
\* attachments with a path that were found ready, the first of them on a tie,
\* and no video when none was found ready.
C14_LargestReadyVideo ==
    videoState.pc = "returned" =>
        /\ \A i \in ReadyVideos :
               videoState.attachments[i].hasPath /\ videoState.attachments[i].size > 0
        /\ videoState.result =
               IF ReadyVideos = {} THEN <<>> ELSE Basename(VideoPath(LargestReady))

\* C14 happens: of three videos of 0, 512 and 2048 bytes the first is never
\* ready and the 2048-byte one is returned
C14_Witness ==
    /\ videoState.pc = "returned"
    /\ Len(videoState.attachments) = 3
    /\ videoState.attachments[1] = [hasPath |-> TRUE, size |-> 0]
    /\ videoState.attachments[2] = [hasPath |-> TRUE, size |-> 512]
    /\ videoState.attachments[3] = [hasPath |-> TRUE, size |-> 2048]
    /\ ReadyVideos = {2, 3}
    /\ videoState.result = Basename(VideoPath(3))

\* what holds of the poll in every state
PollWithinBound ==
    /\ \A i \in DOMAIN videoState.attachments :
           /\ videoState.checks[i] <= MaxPollAttempts
           /\ videoState.readySize[i] > 0 => ~(videoState.pc = "poll" /\ videoState.index = i)
    /\ (videoState.pc = "returned" /\ ReadyVideos = {}) => videoState.result = <<>>

\* a candidate found ready is not checked again
NoCheckAfterReady ==
    \A i \in DOMAIN videoState.attachments :
        videoState.readySize[i] > 0 => videoState'.checks[i] = videoState.checks[i]

\* C15: each candidate gets at most 10 readiness checks and none after the
\* check that finds it ready; copyTestVideo always returns, with the empty
\* reference when no candidate was found ready.
C15_PollBoundedAndEnds ==
    /\ []PollWithinBound
    /\ [][NoCheckAfterReady]_vars
    /\ <>(videoState.pc = "returned")

\* C15 happens: two candidates are checked ten times each, neither is found
\* ready, and the empty reference is returned
C15_Witness ==
    /\ videoState.pc = "returned"
    /\ Len(videoState.attachments) = 2
    /\ videoState.checks = <<MaxPollAttempts, MaxPollAttempts>>
    /\ videoState.attachments[2].size = 2048
    /\ ReadyVideos = {}
    /\ videoState.result = <<>>

-----------------------------------------------------------------------------
(* copyToFolder and the copies of screenshots and attachments              *)

\* the result of a copy: the returned name and the file system after it
Copied(name, folders, copied) == [name |-> name, folders |-> folders, copied |-> copied]

\* CopyToFolder with a fault: the destination folder is made before the source is looked at
CopyToFolderMkdirFirst(folders, copied, existing, destFolder, srcPath, fileName) ==
    IF srcPath = <<>> \/ srcPath \notin existing
    THEN Copied(<<>>, folders \cup {destFolder}, copied)
    ELSE LET name == IF fileName # <<>> THEN fileName ELSE Basename(srcPath)
         IN  Copied(name, folders \cup {destFolder}, copied \cup {File(destFolder, name)})

\* copyToFolder(destFolder, srcPath, fileName) on a file system whose
\* existing source paths are `existing`
CopyToFolder(folders, copied, existing, destFolder, srcPath, fileName) ==
    IF srcPath = <<>> \/ srcPath \notin existing
    THEN Copied(<<>>, folders, copied)
    ELSE LET name == IF fileName # <<>> THEN fileName ELSE Basename(srcPath)
         IN  Copied(name, folders \cup {destFolder}, copied \cup {File(destFolder, name)})

\* writeBuffer(destFolder, fileName, buffer)
WriteBuffer(folders, copied, destFolder, fileName) ==
    Copied(fileName, folders \cup {destFolder}, copied \cup {File(destFolder, fileName)})

EndsWith(s, suffix) ==
    Len(s) >= Len(suffix) /\ SubSeq(s, Len(s) - Len(suffix) + 1, Len(s)) = suffix

ScreenshotName == <<"s","c","r","e","e","n","s","h","o","t">>

VideoName == <<"v","i","d","e","o">>

A11yName == <<"A","1","1","y">>

DotPng == <<".","p","n","g">>

\* `screenshot-${Date.now()}.png`
BufferScreenshotName(now) == ScreenshotName \o <<"-">> \o DigitsOf(now) \o DotPng

PathThere == <<"/","t","/","i","n",".","b","i","n">>

PathGone == <<"/","t","/","n","o",".","b","i","n">>

\* the source paths that exist on disk
ExistingPaths == {PathThere}

DestFolder == <<"1","-","a","-">>

AssetNames == {ScreenshotName, VideoName, <<"a">> \o DotPng, <<"t","r","a","c","e">>}

\* attachments of a test result: with no path, a path that is gone or a path
\* that is there, with or without a body
AssetKinds == [name : AssetNames, path : {<<>>, PathGone, PathThere}, hasBody : BOOLEAN]

\* the copy one of the three functions makes of an attachment: it returns ''
\* when the attachment has neither a path nor a body
CopyOne(folders, copied, a, fileName, bufferName) ==
    IF a.path # <<>> THEN CopyToFolder(folders, copied, ExistingPaths, DestFolder, a.path, fileName)
    ELSE IF a.hasBody THEN WriteBuffer(folders, copied, DestFolder, bufferName)
    ELSE Copied(<<>>, folders, copied)

\* copyScreenshots: lines 90-100
IsScreenshot(a) == a.name = ScreenshotName

\* copyPngAttachments: line 108
IsPngAttachment(a) == EndsWith(a.name, DotPng) /\ a.name # ScreenshotName

\* copyAllOtherAttachments: lines 125-127
IsOtherAttachment(a) ==
    a.name \notin {ScreenshotName, VideoName, A11yName} /\ ~EndsWith(a.name, DotPng)

\* the map and filter of one of the three functions over the attachments
\* from position i on: state c, the returned list in c.list
RECURSIVE CopyAll(_, _, _, _, _)
CopyAll(c, attachments, i, kind, now) ==
    IF i > Len(attachments) THEN c
    ELSE LET a == attachments[i]
             wanted == CASE kind = "screenshots" -> IsScreenshot(a)
                         [] kind = "png" -> IsPngAttachment(a)
                         [] OTHER -> IsOtherAttachment(a)
             r == CopyOne(c.folders, c.copied, a,
                          IF kind = "screenshots" THEN <<>> ELSE a.name,
                          IF kind = "screenshots" THEN BufferScreenshotName(now) ELSE a.name)
             entry == IF kind = "screenshots" THEN r.name ELSE [path |-> r.name, name |-> a.name]
         IN  IF ~wanted THEN CopyAll(c, attachments, i + 1, kind, now)
             ELSE CopyAll([folders |-> r.folders, copied |-> r.copied,
                           list |-> IF r.name = <<>> THEN c.list ELSE Append(c.list, entry)],
                          attachments, i + 1, kind, now)

InitCopy ==
    /\ InitReporter(DefaultOptions)
    /\ IdleSanOv
    /\ mergeState = IdleMerge /\ videoState = IdleVideo /\ scanState = IdleScan
    /\ \E attachments \in SeqsUpTo(AssetKinds, MaxAssets) :
          copyState = [IdleCopy EXCEPT !.attachments = attachments, !.pc = "screenshots"]

UnchangedByCopy ==
    UNCHANGED <<options, testIndex, tasks, executionSummary, onEnd, files, sanState, ovState,
                mergeState, videoState, scanState>>

\* line 114 of the reporter: copyScreenshots
CopyScreenshots(Clock) ==
    /\ copyState.pc = "screenshots"
    /\ \E now \in Clock :
          LET c == CopyAll([folders |-> copyState.folders, copied |-> copyState.copied, list |-> <<>>],
                           copyState.attachments, 1, "screenshots", now)
          IN  copyState' = [copyState EXCEPT !.pc = "png", !.folders = c.folders,
                                             !.copied = c.copied, !.screenshots = c.list]
    /\ UnchangedByCopy

\* line 115 of the reporter: copyPngAttachments
CopyPngAttachments ==
    /\ copyState.pc = "png"
    /\ LET c == CopyAll([folders |-> copyState.folders, copied |-> copyState.copied, list |-> <<>>],
                        copyState.attachments, 1, "png", 0)
       IN  copyState' = [copyState EXCEPT !.pc = "other", !.folders = c.folders,
                                          !.copied = c.copied, !.pngAttachments = c.list]
    /\ UnchangedByCopy

\* line 116 of the reporter: copyAllOtherAttachments
CopyAllOtherAttachments ==
    /\ copyState.pc = "other"
    /\ LET c == CopyAll([folders |-> copyState.folders, copied |-> copyState.copied, list |-> <<>>],
                        copyState.attachments, 1, "other", 0)
       IN  copyState' = [copyState EXCEPT !.pc = "done", !.folders = c.folders,
                                          !.copied = c.copied, !.otherAttachments = c.list]
    /\ UnchangedByCopy

NextCopy == CopyScreenshots({7}) \/ CopyPngAttachments \/ CopyAllOtherAttachments

SpecCopy == InitCopy /\ [][NextCopy]_vars

\* the attachment has a source to copy: a path that exists, or a body and no path
HasSource(a) == a.path \in ExistingPaths \/ (a.path = <<>> /\ a.hasBody)

\* the positions of the attachments one of the three functions handles
HandledAssets ==
    {i \in DOMAIN copyState.attachments :
        LET a == copyState.attachments[i]
        IN  IsScreenshot(a) \/ IsPngAttachment(a) \/ IsOtherAttachment(a)}

\* the name an attachment with an existing path is copied under
CopyName(a) == IF IsScreenshot(a) THEN <<"i","n",".","b","i","n">> ELSE a.name

\* C16: a copy from an empty or missing source path returns the empty name,
\* makes no folder and writes no file; a copy from an existing path makes the
\* folder and writes the file under the given name or the source's base
\* name; the lists of the test record hold exactly the attachments that were
\* copied, none with an empty name.
C16_MissingSourceLeftOut ==
    copyState.pc = "done" =>
        LET as == copyState.attachments
            sourced == {i \in HandledAssets : HasSource(as[i])}
        IN  /\ Len(copyState.screenshots) + Len(copyState.pngAttachments)
                   + Len(copyState.otherAttachments) = Cardinality(sourced)
            /\ \A k \in DOMAIN copyState.screenshots : copyState.screenshots[k] # <<>>
            /\ \A k \in DOMAIN copyState.pngAttachments : copyState.pngAttachments[k].path # <<>>
            /\ \A k \in DOMAIN copyState.otherAttachments : copyState.otherAttachments[k].path # <<>>
            /\ copyState.folders = IF sourced = {} THEN {} ELSE {DestFolder}
            /\ sourced = {} => copyState.copied = {}
            /\ \A i \in HandledAssets :
                   as[i].path \in ExistingPaths => File(DestFolder, CopyName(as[i])) \in copyState.copied
            /\ Cardinality(copyState.copied) <= Cardinality(sourced)

\* C16 happens: a screenshot whose path is gone is left out and an
\* attachment whose path is there is copied under its name
C16_Witness ==
    /\ copyState.pc = "done"
    /\ copyState.attachments =
           <<[name |-> ScreenshotName, path |-> PathGone, hasBody |-> TRUE],
             [name |-> <<"t","r","a","c","e">>, path |-> PathThere, hasBody |-> FALSE]>>
    /\ copyState.screenshots = <<>>
    /\ copyState.otherAttachments = <<[path |-> <<"t","r","a","c","e">>, name |-> <<"t","r","a","c","e">>]>>
    /\ copyState.folders = {DestFolder}
    /\ copyState.copied = {File(DestFolder, <<"t","r","a","c","e">>)}

-----------------------------------------------------------------------------
(* scanA11y                                                                *)

\* TotalOf with a fault: the nodes are counted, never the targets
TotalOfNodes(targets, nodes) == Len(nodes)

\* line 288: total: targets.length || violation.nodes.length
TotalOf(targets, nodes) == IF Len(targets) # 0 THEN Len(targets) ELSE Len(nodes)

\* `a11y-${violation.id}-${errorIdx++}.png`, the violation named by its position
ScanScreenshotName(v, errorIdx) ==
    <<"a","1","1","y","-">> \o DigitsOf(v) \o <<"-">> \o DigitsOf(errorIdx) \o DotPng

\* lines 239-277 for one violation: a target for every selector, of every
\* node, that is visible when it is looked at. A node is the sequence of
\* the visibilities of its selectors.
RECURSIVE VisibleSelectors(_)
VisibleSelectors(nodes) ==
    IF nodes = <<>> THEN <<>>
    ELSE SelectSeq(Head(nodes), LAMBDA visible : visible) \o VisibleSelectors(Tail(nodes))

TargetsOf(violation, steps) ==
    [n \in 1..Len(VisibleSelectors(violation.nodes)) |-> Target(steps)]

Wcag == <<"w","c","a","g">>

NotApplicable == <<"N","/","A">>

\* violation.tags[1] || 'N/A': the second tag, when there is one and it is not empty
SecondTagOr(tags, other) == IF Len(tags) >= 2 /\ tags[2] # <<>> THEN tags[2] ELSE other

\* WcagRule with a fault: the second tag is looked at before the wcag tags
WcagRuleSecondFirst(tags) ==
    LET found == SelectSeq(tags, LAMBDA t : HasPrefix(t, Wcag))
    IN  SecondTagOr(tags, IF found # <<>> THEN found[1] ELSE NotApplicable)

\* line 287: tags.find(t => t.startsWith('wcag')) || tags[1] || 'N/A'
WcagRule(tags) ==
    LET found == SelectSeq(tags, LAMBDA t : HasPrefix(t, Wcag))
    IN  IF found # <<>> /\ found[1] # <<>> THEN found[1] ELSE SecondTagOr(tags, NotApplicable)

\* lines 280-290: the A11yError of a violation
ErrorOf(violation, steps) ==
    [id |-> violation.id,
     total |-> TotalOf(TargetsOf(violation, steps), violation.nodes),
     severity |-> violation.impact,
     guideline |-> SecondTagOr(violation.tags, NotApplicable),
     wcagRule |-> WcagRule(violation.tags),
     target |-> TargetsOf(violation, steps)]

\* lines 234-291
ErrorsOf(violations, steps) == [v \in DOMAIN violations |-> ErrorOf(violations[v], steps)]

\* the screenshots attached while the targets are captured (part_001:137)
RECURSIVE ScreenshotsOf(_, _)
ScreenshotsOf(violations, v) ==
    IF v > Len(violations) THEN <<>>
    ELSE [n \in 1..Len(VisibleSelectors(violations[v].nodes)) |->
              [name |-> ScanScreenshotName(v, n - 1), body |-> [png |-> TRUE]]]
         \o ScreenshotsOf(violations, v + 1)

\* AttachPayload with a fault: nothing is attached for a scan without violation
AttachPayloadIfAny(attachments, errors) ==
    IF errors = <<>> THEN attachments
    ELSE Append(attachments, [name |-> A11yName, body |-> Payload(TRUE, KeyHome, "list", errors)])

\* lines 294-307: the payload is attached under the name A11y
AttachPayload(attachments, errors) ==
    Append(attachments, [name |-> A11yName, body |-> Payload(TRUE, KeyHome, "list", errors)])

\* the visibilities of the selectors of a node: one or two selectors, each
\* visible or not
NodeKinds == {<<TRUE>>, <<FALSE>>, <<TRUE, TRUE>>, <<TRUE, FALSE>>}

\* tags as the analyzer declares them on a rule: a category, a conformance
\* level, a success criterion, a best-practice mark
TagCat == <<"c","a","t",".","c","o","l","o","r">>

TagLevel == <<"w","c","a","g","2","a","a">>

TagCriterion == <<"w","c","a","g","1","4","3">>

TagBest == <<"b","e","s","t","-","p","r","a","c","t","i","c","e">>

\* tags that hold the letters of wcag without starting with them
TagSection == <<"s","e","c","t","i","o","n","5","0","8",".","w","c","a","g","2">>

TagUpper == <<"W","C","A","G","2","A">>

RuleTags == <<TagCat, TagLevel, TagCriterion>>

\* the analyzer reports one violation per rule, each with at least one node
RuleAt(v) == CASE v = 1 -> "image-alt" [] v = 2 -> "label" [] OTHER -> "color-contrast"

\* the nodes of a violation: at least one
NodeLists == SeqsUpTo(NodeKinds, MaxNodes) \ {<<>>}

\* the analyzer's result: the violation at position v has the nodes ns[v]
Violations(ns) ==
    [v \in DOMAIN ns |->
        [id |-> RuleAt(v), impact |-> "serious", tags |-> RuleTags, nodes |-> ns[v]]]

\* the scan of a page with at most max violations is about to start
InitScanWith(max) ==
    /\ InitReporter(DefaultOptions)
    /\ IdleSanOv /\ IdleAssets
    /\ \E n \in 0..max : \E ns \in [1..n -> NodeLists] :
          scanState = [IdleScan EXCEPT !.violations = Violations(ns)]

InitScan == InitScanWith(MaxViolations)

\* scanA11y, from the analyzer's result to the attached payload
Scan ==
    /\ ~scanState.done
    /\ scanState' =
           [scanState EXCEPT
               !.attachments =
                   AttachPayload(@ \o ScreenshotsOf(scanState.violations, 1),
                                 ErrorsOf(scanState.violations, <<"Open menu">>)),
               !.done = TRUE]
    /\ UNCHANGED <<options, testIndex, tasks, executionSummary, onEnd, files, sanState, ovState,
                   mergeState, videoState, copyState>>

NextScan == Scan

SpecScan == InitScan /\ [][NextScan]_vars

\* the payloads named A11y among the attachments of the test
ScanPayloads == SelectSeq(scanState.attachments, LAMBDA a : a.name = A11yName)

\* the violation lists of the attached payloads
ScanErrors == IF ScanPayloads = <<>> THEN <<>> ELSE ScanPayloads[1].body.errors

RECURSIVE SelectorCount(_)
SelectorCount(nodes) ==
    IF nodes = <<>> THEN 0 ELSE Len(Head(nodes)) + SelectorCount(Tail(nodes))

\* C17: every violation record has total >= its number of targets, with
\* equality when every selector of every node was visible.
C17_TotalAtLeastTargets ==
    scanState.done =>
        \A v \in DOMAIN ScanErrors :
            /\ ScanErrors[v].total >= Len(ScanErrors[v].target)
            /\ Len(VisibleSelectors(scanState.violations[v].nodes))
                   = SelectorCount(scanState.violations[v].nodes)
               => ScanErrors[v].total = Len(ScanErrors[v].target)

\* C17 happens: a record with more total than targets (nothing visible), and
\* a record of a two-selector node with as many targets as total
C17_Witness ==
    /\ scanState.done
    /\ Len(ScanErrors) = 2
    /\ scanState.violations[1].nodes = <<<<FALSE>>, <<FALSE>>>>
    /\ ScanErrors[1].total = 2 /\ ScanErrors[1].target = <<>>
    /\ scanState.violations[2].nodes = <<<<TRUE, TRUE>>>>
    /\ ScanErrors[2].total = 2 /\ Len(ScanErrors[2].target) = 2

\* C18: nodes that are not visible produce no target and no screenshot but
\* are counted: the total of a record covers all nodes of its violation.
C18_TotalCoversAllNodes ==
    scanState.done =>
        \A v \in DOMAIN ScanErrors :
            /\ Len(ScanErrors[v].target) = Len(VisibleSelectors(scanState.violations[v].nodes))
            /\ ScanErrors[v].total >= Len(scanState.violations[v].nodes)

-----------------------------------------------------------------------------
(* A scan followed by the report of its test                               *)

\* the A11y attachments of the test as the reporter reads them (line 128, 152)
ScannedSources ==
    [i \in DOMAIN ScanPayloads |-> Source("attachment", "json", ScanPayloads[i].body)]

\* the test-end event of the scanned test: expect.soft fails it when there are violations
ScannedInputs ==
    {TestInput(t, IF scanState.violations = <<>> THEN "passed" ELSE "failed", 1, ScannedSources) :
        t \in TestCases}

OnScannedTestEnd == scanState.done /\ OnTestEnd(ScannedInputs, 1)

\* scans of a page with at most one violation
InitScanReport == InitScanWith(1)

NextScanReport ==
    \/ Scan
    \/ OnScannedTestEnd
    \/ VideoDone({""})
    \/ ScanRenderDone
    \/ ExecRenderDone

SpecScanReport == InitScanReport /\ [][NextScanReport]_vars

\* no rule is counted, in the run or in a browser
NoRuleCounted ==
    /\ executionSummary.wcagErrors = EmptyMap
    /\ executionSummary.totalA11yErrorCount = 0
    /\ \A b \in DOMAIN executionSummary.browserSummaries :
           /\ executionSummary.browserSummaries[b].wcagErrors = EmptyMap
           /\ executionSummary.browserSummaries[b].totalA11yErrorCount = 0

\* C19: a completed scan has attached exactly one payload named A11y; when
\* the analyzer reported no violation its violation list is empty and its
\* totals sum to 0, and the reporter renders it as a per-scan report and
\* counts no rule.
C19_OnePayloadPerScan ==
    /\ scanState.done => Len(ScanPayloads) = 1
    /\ (scanState.done /\ scanState.violations = <<>>) =>
           /\ ScanErrors = <<>>
           /\ ScanErrorCount(ScanErrors) = 0
           /\ NoRuleCounted
           /\ \A k \in DOMAIN tasks :
                  tasks[k].pc \in {"exec", "done"} =>
                      /\ Len(tasks[k].rendered) = 1
                      /\ tasks[k].rendered[1].data.errors = <<>>
                      /\ File(tasks[k].folderName, tasks[k].rendered[1].name) \in files

\* C19 happens: the test of a scan without violation is reported, its
\* per-scan page written
C19_Witness ==
    /\ scanState.done /\ scanState.violations = <<>>
    /\ Len(scanState.attachments) = 1
    /\ Len(tasks) = 1 /\ tasks[1].pc = "done"
    /\ File(tasks[1].folderName, <<"h","o">> \o DotHtml) \in files
    /\ NoRuleCounted

-----------------------------------------------------------------------------
(* Rendering failures                                                      *)

\* C20: a task whose per-scan or execution render failed never completes;
\* while a task has failed the summary is not written and onEnd does not go
\* past its await; onEnd completes only with the summary written, and fails
\* when the render of the summary fails.
C20_RenderFailureFatal ==
    /\ \A k \in DOMAIN tasks : ~tasks[k].awaited => tasks[k].pc \in {"scan", "exec", "failed"}
    /\ (\E k \in DOMAIN tasks : tasks[k].pc = "failed" \/ ~tasks[k].awaited) =>
           ~SummaryWritten /\ onEnd.pc \in {"idle", "awaiting", "failed"}
    /\ ~onEnd.awaited => ~SummaryWritten /\ onEnd.pc \in {"render", "failed"}
    /\ onEnd.pc = "done" => SummaryWritten /\ AllDone

\* C20 happens: the per-scan render of one of two tests failed, its task
\* failed, onEnd failed and no summary is there
C20_Witness ==
    /\ Len(tasks) = 2
    /\ tasks[1].pc = "done"
    /\ tasks[2].pc = "failed" /\ ~tasks[2].awaited /\ tasks[2].rendered # <<>>
    /\ onEnd.pc = "failed"
    /\ ~SummaryWritten

-----------------------------------------------------------------------------
(* The life of the summary                                                 *)

CounterNames ==
    {"total", "totalPassed", "totalFailed", "totalSkipped", "totalFlaky", "totalA11yErrorCount"}

\* summary b has every rule of summary a, and no counter or rule count of b
\* is below that of a
Keeps(a, b) ==
    /\ \A c \in CounterNames : b[c] >= a[c]
    /\ DOMAIN a.wcagErrors \subseteq DOMAIN b.wcagErrors
    /\ \A r \in DOMAIN a.wcagErrors : b.wcagErrors[r].count >= a.wcagErrors[r].count

\* a step retracts nothing from the run's summary or from a browser's
SummaryGrows ==
    /\ Keeps(executionSummary, executionSummary')
    /\ DOMAIN executionSummary.groupedResults \subseteq DOMAIN executionSummary'.groupedResults
    /\ DOMAIN executionSummary.browserSummaries \subseteq DOMAIN executionSummary'.browserSummaries
    /\ \A b \in DOMAIN executionSummary.browserSummaries :
           Keeps(executionSummary.browserSummaries[b], executionSummary'.browserSummaries[b])

\* status, icon and duration are as the field initialiser left them
Unstamped ==
    /\ executionSummary.status = ""
    /\ executionSummary.statusIcon = ""
    /\ executionSummary.duration = ""

\* onEnd has not gone past its await of the tasks
BeforeBarrier ==
    \/ onEnd.pc \in {"idle", "awaiting"}
    \/ onEnd.pc = "failed" /\ onEnd.awaited

\* C21: no counter or rule count of the run's summary or of a browser's
\* summary ever decreases, no rule, group or browser entry is ever removed,
\* and status and duration stay empty until onEnd has passed its await of
\* the tasks.
C21_SummaryMonotone == [][SummaryGrows]_vars /\ [](BeforeBarrier => Unstamped)

\* C21 happens: two tests on two browsers were counted with their rules, and
\* the summary was stamped after the barrier
C21_Witness ==
    /\ onEnd.pc = "done"
    /\ executionSummary.status = "failed" /\ executionSummary.duration # ""
    /\ executionSummary.total = 2
    /\ BrowserCount("chromium", "image-alt") = 3
    /\ BrowserCount("unknown", "label") = 1

-----------------------------------------------------------------------------
(* groupedResults                                                          *)

\* the places (group, position) of the records of a task
PlacesOf(sum, task) ==
    {<<g, i>> \in UNION {{g} \X DOMAIN sum.groupedResults[g] : g \in DOMAIN sum.groupedResults} :
        sum.groupedResults[g][i].folderName = task.folderName}

SumOfLengths(groups) ==
    LET RECURSIVE SumOf(_)
        SumOf(keys) == IF keys = {} THEN 0
                       ELSE LET g == CHOOSE x \in keys : TRUE
                            IN  Len(groups[g]) + SumOf(keys \ {g})
    IN  SumOf(DOMAIN groups)

IsPrefix(a, b) == Len(a) <= Len(b) /\ SubSeq(b, 1, Len(a)) = a

\* each task past its aggregation has one record, in its own group; a task
\* before it has none; the run's total is the number of records
GroupsComplete ==
    /\ executionSummary.total = SumOfLengths(executionSummary.groupedResults)
    /\ \A k \in DOMAIN tasks :
           /\ tasks[k].pc \in {"exec", "done"} =>
                  /\ Cardinality(PlacesOf(executionSummary, tasks[k])) = 1
                  /\ \A place \in PlacesOf(executionSummary, tasks[k]) :
                         place[1] = FileGroup(tasks[k].input)
           /\ tasks[k].pc \in {"video", "scan"} => PlacesOf(executionSummary, tasks[k]) = {}

\* every list is a prefix of what it is after a step
GroupsAppendOnly ==
    \A g \in DOMAIN executionSummary.groupedResults :
        /\ g \in DOMAIN executionSummary'.groupedResults
        /\ IsPrefix(executionSummary.groupedResults[g], executionSummary'.groupedResults[g])

\* the step in which a task reaches its aggregation puts its record at the
\* end of its group's list
AppendedOnAggregation ==
    \A k \in DOMAIN tasks :
        (tasks[k].pc \in {"video", "scan"} /\ tasks'[k].pc = "exec") =>
            LET g == FileGroup(tasks[k].input)
                after == executionSummary'.groupedResults[g]
            IN  /\ Len(after) = Len(executionSummary.groupedResults[g]) + 1
                /\ after[Len(after)].folderName = tasks[k].folderName

\* C22: groupedResults is append-only and complete: a task that reached its
\* aggregation has exactly one record, in the list of its own group; lists
\* are never reordered or shortened; a record is appended when its task
\* reaches aggregation; the run's total is the sum of the lengths of the lists.
C22_GroupsAppendOnlyComplete ==
    []GroupsComplete /\ [][GroupsAppendOnly /\ AppendedOnAggregation]_vars

\* C22 happens: two events of one test, the second aggregated first, so the
\* list holds the record of folder 2 before that of folder 1
C22_Witness ==
    /\ Len(tasks) = 2 /\ AllDone
    /\ FileGroup(tasks[1].input) = FileGroup(tasks[2].input)
    /\ LET list == executionSummary.groupedResults[FileGroup(tasks[1].input)]
       IN  /\ Len(list) = 2
           /\ list[1].folderName = tasks[2].folderName
           /\ list[2].folderName = tasks[1].folderName
    /\ executionSummary.total = 2

-----------------------------------------------------------------------------
(* Counters under interleaving                                             *)

\* the test-end events received with a status
EventsWith(status) == {k \in DOMAIN tasks : tasks[k].input.status = status}

\* C23: after all per-test tasks have completed successfully, the run's total
\* is the number of test-end events received, and totalPassed, totalFailed
\* and totalSkipped are the numbers of events with that status; timedOut and
\* interrupted events add to total only. This holds for every interleaving.
C23_NoLostUpdate ==
    AllDone =>
        /\ executionSummary.total = Len(tasks)
        /\ executionSummary.totalPassed = Cardinality(EventsWith("passed"))
        /\ executionSummary.totalFailed = Cardinality(EventsWith("failed"))
        /\ executionSummary.totalSkipped = Cardinality(EventsWith("skipped"))

\* C23 happens: a failed test that rendered two scans and a timed out test,
\* the second counted first
C23_Witness ==
    /\ Len(tasks) = 2 /\ AllDone
    /\ tasks[1].input.status = "failed" /\ Len(tasks[1].rendered) = 2
    /\ tasks[2].input.status = "timedOut"
    /\ FileGroup(tasks[1].input) = FileGroup(tasks[2].input)
    /\ executionSummary.groupedResults[FileGroup(tasks[1].input)][1].folderName = tasks[2].folderName
    /\ executionSummary.total = 2
    /\ executionSummary.totalFailed = 1
    /\ executionSummary.totalPassed = 0

-----------------------------------------------------------------------------
(* The order of the steps of one task                                      *)

\* the totals of the first n payloads handed to the per-scan template
RECURSIVE FoldedTotal(_, _)
FoldedTotal(r, n) ==
    IF n = 0 THEN 0
    ELSE FoldedTotal(r, n - 1)
         + (IF r[n].data.errorsKind = "list" THEN ScanErrorCount(r[n].data.errors) ELSE 0)

\* the totals of a rule in the first n payloads handed to the template
RECURSIVE FoldedRule(_, _, _)
FoldedRule(r, n, rule) ==
    IF n = 0 THEN 0
    ELSE FoldedRule(r, n - 1, rule)
         + (IF r[n].data.errorsKind = "list" THEN RuleTotal(r[n].data.errors, rule) ELSE 0)

\* the summaries hold the first n rendered payloads of the task, no more
FoldedUpTo(task, n) ==
    /\ task.a11yErrorCount = FoldedTotal(task.rendered, n)
    /\ executionSummary.totalA11yErrorCount = FoldedTotal(task.rendered, n)
    /\ \A rule \in RuleIds :
           /\ CountIn(executionSummary.wcagErrors, rule) = FoldedRule(task.rendered, n, rule)
           /\ BrowserCount(Browser(task.input), rule) = FoldedRule(task.rendered, n, rule)

ExecutionFile(task) ==
    File(task.folderName, ExecutionReportName(SanitizeTitle(task.input.test.title)))

\* where the only task of the run stands, against what it has done so far
StepsInOrder(task) ==
    LET r == task.rendered
        sources == A11yDataSources(task.input)
    IN  /\ \A a, b \in DOMAIN r : a < b => r[a].index < r[b].index
        /\ \A j \in DOMAIN r :
               r[j].data = StampVideo(task.video, ApplyConfiguration(options, sources[r[j].index].data))
        /\ task.pc = "video" =>
               /\ r = <<>> /\ files = {} /\ task.video = ""
               /\ FoldedUpTo(task, 0)
        /\ task.pc = "scan" =>
               /\ r # <<>> /\ task.i = r[Len(r)].index
               /\ FoldedUpTo(task, Len(r) - 1)
        /\ task.pc \in {"video", "scan"} =>
               /\ executionSummary.total = 0
               /\ executionSummary.browserSummaries = EmptyMap
                  \/ executionSummary.browserSummaries[Browser(task.input)].total = 0
               /\ AllRecords = {}
               /\ ExecutionFile(task) \notin files
        /\ task.pc \in {"exec", "done"} =>
               /\ FoldedUpTo(task, Len(r))
               /\ executionSummary.total = 1
               /\ executionSummary.browserSummaries[Browser(task.input)].total = 1
               /\ Cardinality(AllRecords) = 1
        /\ ExecutionFile(task) \in files => task.pc \in {"exec", "done"}

\* one render at a time, and none after the execution page
OneRenderAtATime ==
    \A k \in DOMAIN tasks :
        /\ IsPrefix(tasks[k].rendered, tasks'[k].rendered)
        /\ Len(tasks'[k].rendered) <= Len(tasks[k].rendered) + 1
        /\ Cardinality(files' \ files) <= 1
        /\ ExecutionFile(tasks[k]) \in files => files' = files

\* C24: within one task the assets are relocated before the first per-scan
\* render; payloads are rendered one at a time in arrival order; a payload is
\* folded into the rule aggregates after its own render and before the next
\* render; the test counters and the group record come after the last
\* payload; the execution page is rendered last.
C24_TaskStepsSequential ==
    [](\A k \in DOMAIN tasks : StepsInOrder(tasks[k])) /\ [][OneRenderAtATime]_vars

\* C24 happens: the second of two payloads is being rendered with a video
\* relocated, the first payload folded and the second not yet
C24_Witness ==
    /\ Len(tasks) = 1 /\ tasks[1].pc = "scan"
    /\ tasks[1].video = "video.webm"
    /\ Len(tasks[1].rendered) = 2
    /\ tasks[1].rendered[2].data.errors = <<Err("image-alt", 3), Err("label", 1)>>
    /\ executionSummary.totalA11yErrorCount = 3
    /\ CountIn(executionSummary.wcagErrors, "label") = 0
    /\ Cardinality(files) = 2

-----------------------------------------------------------------------------
(* The video reference                                                     *)

\* C25: every rendered payload carries the relocated video name when
\* copyTestVideo returned one and the producer's value when it returned the
\* empty name; the name returned is that of every payload of the test and of
\* the test record.
C25_VideoStampedIfAny ==
    \A k \in DOMAIN tasks :
        LET task == tasks[k]
            sources == A11yDataSources(task.input)
        IN  /\ \A j \in DOMAIN task.rendered :
                   LET shown == task.rendered[j].data.video
                       produced == sources[task.rendered[j].index].data.video
                   IN  /\ task.video # "" => shown = task.video
                       /\ task.video = "" => shown = produced /\ produced # ""
            /\ \A rec \in AllRecords :
                   rec.folderName = task.folderName => rec.videoPath = task.video

\* C25 happens: two payloads and the record carry the relocated name
C25_Witness ==
    /\ Len(tasks) = 1 /\ tasks[1].pc = "done"
    /\ tasks[1].video = "video.webm"
    /\ Len(tasks[1].rendered) = 2
    /\ \A j \in 1..2 : tasks[1].rendered[j].data.video = "video.webm"
    /\ \E rec \in AllRecords : rec.videoPath = "video.webm"

-----------------------------------------------------------------------------
(* The index suffix and the number of sources                              *)

\* the names a payload can get when its test has one source
UnsuffixedNames(task, data) ==
    {AccessibilityPrefix \o SanitizeTitle(task.input.test.title) \o DotHtml}
    \cup (IF data.hasKey THEN {SanitizeKey(data.pageKey) \o DotHtml} ELSE {})

\* C26: the suffix of a per-scan report depends on the number of sources of
\* the test, attachments first, then annotations: with more than one source
\* the report of the source at position i ends with -i, also when earlier
\* sources were skipped; with one source the name has no suffix.
C26_SuffixCountsSources ==
    \A k \in DOMAIN tasks :
        LET task == tasks[k]
            sources == task.input.attachments \o task.input.annotations
        IN  \A j \in DOMAIN task.rendered :
                LET report == task.rendered[j]
                IN  /\ report.index \in DOMAIN sources
                    /\ sources[report.index].content = "json"
                    /\ Len(sources) > 1 => EndsWithIndex(report.name, report.index)
                    /\ Len(sources) = 1 =>
                           report.name \in UnsuffixedNames(task, sources[1].data)

\* C26 happens: the first of two sources is unparsable, and the only report
\* of the test is that of the second source, named with -2
C26_Witness ==
    /\ Len(tasks) = 1 /\ tasks[1].pc = "done"
    /\ Len(A11yDataSources(tasks[1].input)) = 2
    /\ A11yDataSources(tasks[1].input)[1].content = "unparsable"
    /\ Len(tasks[1].rendered) = 1
    /\ tasks[1].rendered[1].name = <<"h","o","-","2">> \o DotHtml
    /\ File(tasks[1].folderName, <<"h","o","-","2">> \o DotHtml) \in files

-----------------------------------------------------------------------------
(* The tags of a violation                                                 *)

MaxTags == 3

\* the tags a rule can declare
TagKinds == {TagCat, TagLevel, TagCriterion, TagBest, TagSection, TagUpper}

\* the scan of a page with one violation of a rule with at most MaxTags tags
InitTags ==
    /\ InitReporter(DefaultOptions)
    /\ IdleSanOv /\ IdleAssets
    /\ \E tags \in SeqsUpTo(TagKinds, MaxTags), nodes \in {<<<<TRUE>>>>, <<<<FALSE>>>>} :
          scanState = [IdleScan EXCEPT
                          !.violations = <<[id |-> RuleAt(1), impact |-> "serious",
                                            tags |-> tags, nodes |-> nodes]>>]

SpecTags == InitTags /\ [][NextScan]_vars

\* a tag of the form wcag, digits, level letters
IsWcagTag(t) == Len(t) > Len(Wcag) /\ SubSeq(t, 1, Len(Wcag)) = Wcag /\ IsDigit(t[Len(Wcag) + 1])

\* the positions of the wcag tags
WcagPositions(tags) == {i \in DOMAIN tags : IsWcagTag(tags[i])}

\* C27: the wcag tag of a violation record is the first declared tag that
\* matches the wcag pattern, at whatever position; when none matches, the
\* second declared tag; when there is no second tag, the literal N/A.
C27_WcagTagOrder ==
    scanState.done =>
        \A v \in DOMAIN ScanErrors :
            LET tags == scanState.violations[v].tags
                rule == ScanErrors[v].wcagRule
            IN  /\ WcagPositions(tags) # {} =>
                       rule = tags[CHOOSE i \in WcagPositions(tags) :
                                       \A j \in WcagPositions(tags) : i <= j]
                /\ (WcagPositions(tags) = {} /\ Len(tags) >= 2) => rule = tags[2]
                /\ (WcagPositions(tags) = {} /\ Len(tags) < 2) => rule = NotApplicable

\* C27 happens: the third tag is the first wcag tag and wins over the second tag
C27_Witness ==
    /\ scanState.done
    /\ Len(ScanErrors) = 1
    /\ scanState.violations[1].tags = <<TagCat, TagBest, TagCriterion>>
    /\ ScanErrors[1].wcagRule = TagCriterion
    /\ ScanErrors[1].guideline = TagBest

-----------------------------------------------------------------------------
(* SnapAllyLegacyReporter.onTestEnd                                        *)
(* The legacy reporter keeps its run in fields of the same shape: testNo   *)
(* is held in testIndex, summary in executionSummary, and each onTestEnd   *)
(* call leaves one entry in tasks.                                         *)

LegacyDefaultColors ==
    [critical |-> "#bd1f35", serious |-> "#d67f05", moderate |-> "#f0c000", minor |-> "#2da4cf"]

\* part_000:468-476
LegacyConfiguration(opts, data) ==
    [data EXCEPT
        !.colors = [c \in DOMAIN LegacyDefaultColors |-> OrElse(opts.colors[c], LegacyDefaultColors[c])],
        !.adoOrganization = IF opts.ado.present THEN OrElse(opts.ado.organization, @) ELSE @,
        !.adoProject = IF opts.ado.present THEN OrElse(opts.ado.project, @) ELSE @]

\* part_000:452-463: `a11y${testNo}.html`, or the sanitized page key
LegacyReportName(testNo, data) ==
    LET fileName == <<"a","1","1","y">> \o DigitsOf(testNo) \o DotHtml
    IN  IF data.hasKey /\ data.pageKey # <<>> /\ SanitizeKey(data.pageKey) # <<>>
        THEN SanitizeKey(data.pageKey) \o DotHtml
        ELSE fileName

\* part_000:482-495: the driver's steps merged into every target
LegacyMergeTargets(errors, playwrightSteps) ==
    [e \in DOMAIN errors |->
        [errors[e] EXCEPT
            !.target = [t \in DOMAIN @ |-> [@[t] EXCEPT !.steps = MergeSteps(@, playwrightSteps)]]]]

\* part_000:480-504: merge and rule counts, both under the guard on the
\* driver's steps
LegacyEnrich(sum, data, playwrightSteps) ==
    IF playwrightSteps # <<>> /\ data.errorsKind = "list"
    THEN [summary |-> [sum EXCEPT !.wcagErrors = FoldRules(@, data.errors)],
          data |-> [data EXCEPT !.errors = LegacyMergeTargets(@, playwrightSteps)]]
    ELSE [summary |-> sum, data |-> data]

\* resultItem
LegacyRecord(input, testNo, video) ==
    [num |-> testNo, folderName |-> DigitsOf(testNo), title |-> input.test.title,
     fileName |-> FileGroup(input), status |-> input.status, videoPath |-> video]

LegacyTask(input, testNo, pc, rendered) ==
    [input |-> input, folderName |-> DigitsOf(testNo), pc |-> pc, rendered |-> rendered]

\* onTestEnd of the legacy reporter, from its call to its end or to the
\* statement that throws
LegacyOnTestEnd(Inputs, Videos, limit) ==
    /\ Len(tasks) < limit
    /\ \E input \in Inputs, video \in Videos, stepRenderOk \in BOOLEAN, pageRenderOk \in BOOLEAN :
          LET testNo == testIndex + 1
              folder == DigitsOf(testNo)
              group == FileGroup(input)
              counted == CountInRun(
                             [EnsureGroup(executionSummary, group) EXCEPT
                                 !.groupedResults[group] = Append(@, LegacyRecord(input, testNo, video))],
                             input)
              index == Render(files, stepRenderOk, File(folder, <<"i","n","d","e","x">> \o DotHtml))
              annotation == input.annotations[1]
              configured == LegacyConfiguration(options, annotation.data)
              enriched == LegacyEnrich(counted, configured, GetTestSteps(input.test.steps))
              name == LegacyReportName(testNo, annotation.data)
              report == <<[index |-> 1, name |-> name, data |-> enriched.data]>>
          IN  /\ testIndex' = testNo
              /\ CASE ~stepRenderOk ->
                          /\ executionSummary' = counted
                          /\ files' = index
                          /\ tasks' = Append(tasks, LegacyTask(input, testNo, "failed", <<>>))
                   [] stepRenderOk /\ input.annotations = <<>> ->
                          /\ executionSummary' = counted
                          /\ files' = index
                          /\ tasks' = Append(tasks, LegacyTask(input, testNo, "done", <<>>))
                   [] stepRenderOk /\ input.annotations # <<>> /\ annotation.content # "json" ->
                          \* JSON.parse throws, or reportData.pageKey of null does
                          /\ executionSummary' = counted
                          /\ files' = index
                          /\ tasks' = Append(tasks, LegacyTask(input, testNo, "failed", <<>>))
                   [] OTHER ->
                          /\ executionSummary' = enriched.summary
                          /\ files' = Render(index, pageRenderOk, File(folder, name))
                          /\ tasks' = Append(tasks, LegacyTask(input, testNo,
                                                               Settle(pageRenderOk), report))
    /\ UNCHANGED <<options, onEnd, sanState, ovState, mergeState, videoState, copyState, scanState>>

\* a trace of the driver without any test.step
HookTrace == <<Step("Before Hooks", "hook", <<>>)>>

LegacyTests ==
    {[title |-> TitleA, file |-> "a.spec.ts", project |-> "chromium", steps |-> trace] :
        trace \in {NestedTrace, HookTrace, <<>>}}
    \cup {[title |-> TitleB, file |-> "b.spec.ts", project |-> "", steps |-> <<>>]}

\* A11y annotations: two rules, one rule with a page key, no violation, text
\* that does not parse
LegacyAnnotations ==
    {SrcTwo,
     Source("annotation", "json", Payload(TRUE, KeyHome, "list", <<Err("image-alt", 3)>>)),
     Source("annotation", "json", Payload(TRUE, KeyHome, "list", <<>>)),
     Source("annotation", "unparsable", Payload(FALSE, <<>>, "absent", <<>>))}

LegacyInputs ==
    {TestInput(t, s, a, <<>>) : t \in LegacyTests, s \in Statuses, a \in 1..MaxAttempts}
    \cup {TestInput(t, "failed", 1, l) :
              t \in LegacyTests, l \in SeqsUpTo(LegacyAnnotations, MaxSources) \ {<<>>}}

NextLegacy == LegacyOnTestEnd(LegacyInputs, {""}, MaxTests)

SpecLegacy == Init /\ [][NextLegacy]_vars

\* the totals of a rule in the A11y annotation the legacy reporter reads
RECURSIVE LegacyTotal(_, _)
LegacyTotal(ts, rule) ==
    IF ts = <<>> THEN 0
    ELSE (IF Head(ts).rendered # <<>> /\ Head(ts).rendered[1].data.errorsKind = "list"
          THEN RuleTotal(Head(ts).input.annotations[1].data.errors, rule) ELSE 0)
         + LegacyTotal(Tail(ts), rule)

\* C28: in the legacy reporter every violation record of a test's A11y
\* annotation adds its total to the rule counts of the run, whatever the
\* driver's step trace of the test holds.
C28_LegacyRulesCounted ==
    \A rule \in RuleIds : CountIn(executionSummary.wcagErrors, rule) = LegacyTotal(tasks, rule)

-----------------------------------------------------------------------------
(* What a failed task leaves in the summary                                *)

\* a render awaited by the task was rejected and the task has ended on it
AbortedByRender(task) == task.pc = "failed" /\ ~task.awaited

\* no test counter of the run or of a browser has moved
NoTestCounted ==
    /\ \A c \in {"total", "totalPassed", "totalFailed", "totalSkipped", "totalFlaky"} :
           /\ executionSummary[c] = 0
           /\ \A b \in DOMAIN executionSummary.browserSummaries :
                  executionSummary.browserSummaries[b][c] = 0
    /\ AllRecords = {}

\* C29 as stated: a task aborted by a render error has left no record, no
\* test counter and no rule count or totalA11yErrorCount, in the run's
\* summary and in the browser's.
C29_FailedTaskLeavesNothing ==
    \A k \in DOMAIN tasks : AbortedByRender(tasks[k]) => NoTestCounted /\ NoRuleCounted

\* the files of the first n per-scan reports of the task are written
ReportsWritten(task, n) ==
    \A j \in 1..n : File(task.folderName, task.rendered[j].name) \in files

\* the render of the last payload handed to the template failed: the payloads
\* before it are folded, no record and no test counter is written
AbortedAtScan(task) ==
    /\ task.rendered # <<>>
    /\ FoldedUpTo(task, Len(task.rendered) - 1)
    /\ ReportsWritten(task, Len(task.rendered) - 1)
    /\ NoTestCounted

\* the render of the execution page failed: every payload is folded and the
\* record and the test counters are written
AbortedAtExecution(task) ==
    /\ FoldedUpTo(task, Len(task.rendered))
    /\ ReportsWritten(task, Len(task.rendered))
    /\ ExecutionFile(task) \notin files
    /\ executionSummary.total = 1
    /\ executionSummary.browserSummaries[Browser(task.input)].total = 1
    /\ Cardinality(PlacesOf(executionSummary, task)) = 1

\* C29 amended: a task aborted by a render error has left in the summary
\* what it wrote before the failing render: the payloads rendered before a
\* failing per-scan render and nothing else, or, when the execution render
\* failed, all its payloads, its record and its test counters.
C29_FailedTaskKeepsEarlierSteps ==
    \A k \in DOMAIN tasks :
        AbortedByRender(tasks[k]) => AbortedAtScan(tasks[k]) \/ AbortedAtExecution(tasks[k])

\* C29 happens: the render of the second payload failed with the first
\* payload counted, and no record is there
C29_Witness ==
    /\ Len(tasks) = 1 /\ AbortedByRender(tasks[1])
    /\ Len(tasks[1].rendered) = 2
    /\ executionSummary.totalA11yErrorCount = 3
    /\ BrowserCount(Browser(tasks[1].input), "image-alt") = 3
    /\ NoTestCounted
    /\ Cardinality(files) = 1

-----------------------------------------------------------------------------
(* totalA11yErrorCount against the rule counts                             *)

\* the sum of count over the entries of a rule aggregate
SumOfCounts(wcagErrors) ==
    LET RECURSIVE SumOf(_)
        SumOf(rules) == IF rules = {} THEN 0
                        ELSE LET r == CHOOSE x \in rules : TRUE
                             IN  wcagErrors[r].count + SumOf(rules \ {r})
    IN  SumOf(DOMAIN wcagErrors)

\* C30: in every state, the totalA11yErrorCount of the run's summary and of
\* each browser's summary is the sum of the counts of its own wcagErrors, and
\* that of the run is the sum of those of the browsers.
C30_ErrorTotalsConsistent ==
    /\ executionSummary.totalA11yErrorCount = SumOfCounts(executionSummary.wcagErrors)
    /\ \A b \in DOMAIN executionSummary.browserSummaries :
           executionSummary.browserSummaries[b].totalA11yErrorCount
               = SumOfCounts(executionSummary.browserSummaries[b].wcagErrors)
    /\ executionSummary.totalA11yErrorCount = SumOverBrowsers("totalA11yErrorCount")

\* C30 happens: two rules counted on two browsers, one test still in flight
C30_Witness ==
    /\ Len(tasks) = 2
    /\ executionSummary.totalA11yErrorCount = 7
    /\ DOMAIN executionSummary.wcagErrors = {"image-alt", "label"}
    /\ DOMAIN executionSummary.browserSummaries = {"chromium", "unknown"}
    /\ executionSummary.browserSummaries["chromium"].totalA11yErrorCount = 3
    /\ executionSummary.browserSummaries["unknown"].totalA11yErrorCount = 4
    /\ \E k \in DOMAIN tasks : tasks[k].pc = "scan"

-----------------------------------------------------------------------------
(* The error counts of the test records                                    *)

\* the sum of a11yErrorCount over a set of test records
RECURSIVE SumOfErrorCounts(_)
SumOfErrorCounts(records) ==
    IF records = {} THEN 0
    ELSE LET rec == CHOOSE x \in records : TRUE
         IN  rec.a11yErrorCount + SumOfErrorCounts(records \ {rec})

\* C31: when the summary is rendered, the run's totalA11yErrorCount is the
\* sum of a11yErrorCount over the test records of groupedResults, and the
\* a11yErrorCount of each record is the sum of total over its a11yErrors.
C31_RecordCountsAddUp ==
    (SummaryWritten \/ onEnd.pc \in {"render", "done"}) =>
        /\ executionSummary.totalA11yErrorCount = SumOfErrorCounts(AllRecords)
        /\ \A rec \in AllRecords : rec.a11yErrorCount = ScanErrorCount(rec.a11yErrors)

\* C31 happens: the summary is written over two records, one of a test with
\* two scans and three violation records
C31_Witness ==
    /\ SummaryWritten
    /\ Cardinality(AllRecords) = 2
    /\ executionSummary.totalA11yErrorCount = 11
    /\ \E rec \in AllRecords : rec.a11yErrorCount = 7 /\ Len(rec.a11yErrors) = 3
    /\ \E rec \in AllRecords : rec.a11yErrorCount = 4 /\ Len(rec.a11yErrors) = 2

-----------------------------------------------------------------------------
(* Run counters against browser counters                                   *)

\* C32: in every state, total, totalPassed, totalFailed and totalSkipped of
\* the run's summary are the sums of the same counter over the browser
\* summaries, and every browser of a counted test has a summary that counts it.
C32_TestCountersSumBrowsers ==
    /\ \A counter \in {"total", "totalPassed", "totalFailed", "totalSkipped"} :
           executionSummary[counter] = SumOverBrowsers(counter)
    /\ \A rec \in AllRecords :
           /\ rec.browser \in DOMAIN executionSummary.browserSummaries
           /\ executionSummary.browserSummaries[rec.browser].total >= 1

\* C32 happens: a skipped test is counted in the run and in its browser while
\* the scan of an earlier test is still being rendered
C32_Witness ==
    /\ Len(tasks) = 2
    /\ tasks[1].pc = "scan"
    /\ tasks[2].pc = "done" /\ tasks[2].input.status = "skipped"
    /\ Browser(tasks[1].input) # Browser(tasks[2].input)
    /\ executionSummary.total = 1 /\ executionSummary.totalSkipped = 1
    /\ Browser(tasks[2].input) \in DOMAIN executionSummary.browserSummaries
    /\ executionSummary.browserSummaries[Browser(tasks[2].input)].totalSkipped = 1

-----------------------------------------------------------------------------
(* Per-scan report names against the execution page                        *)

TitleT == <<"T">>

\* a page key that reads like the name of an execution page
KeyExecution == <<"E","x","e","c","u","t","i","o","n"," ","T">>

NamedTests ==
    {[title |-> TitleT, file |-> "t.spec.ts", project |-> "chromium", steps |-> <<>>],
     [title |-> TitleA, file |-> "a.spec.ts", project |-> "chromium", steps |-> <<>>]}

NamedSources ==
    {KeyedSource(TRUE, KeyExecution), KeyedSource(TRUE, KeyHome), KeyedSource(FALSE, <<>>),
     SrcUnparsable}

\* one test-end event of a test with up to MaxSources scans of named pages
NamedInputs ==
    {TestInput(t, "failed", 1, l) : t \in NamedTests, l \in SeqsUpTo(NamedSources, MaxSources)}

NextNames ==
    \/ OnTestEnd(NamedInputs, 1)
    \/ VideoDone(VideoResults)
    \/ ScanRenderDone
    \/ ExecRenderDone

SpecNames == Init /\ [][NextNames]_vars

\* C33: inside the folder of a test no per-scan report has the file name of
\* the execution page, execution-<sanitized title>.html.
C33_ScanNameNotExecutionName ==
    \A k \in DOMAIN tasks : \A j \in DOMAIN tasks[k].rendered :
        tasks[k].rendered[j].name # ExecutionReportName(SanitizeTitle(tasks[k].input.test.title))

-----------------------------------------------------------------------------
(* Several scans in one test, and the copy of their evidence               *)

\* a further call of scanA11y in the same test, on a page with at most one
\* violation: its screenshots and its payload are attached after the earlier ones
ScanAgain ==
    /\ scanState.done
    /\ copyState = IdleCopy
    /\ Len(ScanPayloads) < MaxSources
    /\ \E n \in 0..1 : \E ns \in [1..n -> NodeLists] :
          scanState' =
              [scanState EXCEPT
                  !.violations = Violations(ns),
                  !.attachments =
                      AttachPayload(@ \o ScreenshotsOf(Violations(ns), 1),
                                    ErrorsOf(Violations(ns), <<"Open menu">>))]
    /\ UNCHANGED <<options, testIndex, tasks, executionSummary, onEnd, files, sanState, ovState,
                   mergeState, videoState, copyState>>

\* the attachments of the scans as the reporter finds them on the test
\* result: each with a body and no path (part_001:137, part_001:119-124)
AsAssets(attachments) ==
    [i \in DOMAIN attachments |-> [name |-> attachments[i].name, path |-> <<>>, hasBody |-> TRUE]]

\* the test ends and the reporter starts copying its attachments (lines 114-116)
ScannedTestEnds ==
    /\ scanState.done
    /\ copyState = IdleCopy
    /\ copyState' = [IdleCopy EXCEPT !.attachments = AsAssets(scanState.attachments),
                                     !.pc = "screenshots"]
    /\ UNCHANGED <<options, testIndex, tasks, executionSummary, onEnd, files, sanState, ovState,
                   mergeState, videoState, scanState>>

NextScans ==
    \/ Scan
    \/ ScanAgain
    \/ ScannedTestEnds
    \/ CopyScreenshots({7})
    \/ CopyPngAttachments
    \/ CopyAllOtherAttachments

SpecScans == InitScanReport /\ [][NextScans]_vars

\* the screenshots the scans of the test attached, one per target record
\* (the name of line 253 goes to the attachment, line 254, and to the target, line 269)
EvidenceShots == SelectSeq(scanState.attachments, LAMBDA a : a.name # A11yName)

\* C34: the screenshot names of the targets of all scans of a test are
\* pairwise distinct, and the copy of the PNG attachments leaves one file
\* per target in the test folder.
C34_ScreenshotNamesUnique ==
    /\ \A i, j \in DOMAIN EvidenceShots :
           i # j => EvidenceShots[i].name # EvidenceShots[j].name
    /\ copyState.pc \in {"other", "done"} =>
           Cardinality({f \in copyState.copied : EndsWith(f.name, DotPng)}) = Len(EvidenceShots)

-----------------------------------------------------------------------------
(* The video reference and the copied file                                 *)

\* C35: copyTestVideo returns a non-empty reference only if the chosen video
\* was copied into the test folder; when nothing was relocated (no candidate
\* ready, or the copy failed) the reference is empty.
C35_VideoReferenceOnlyIfCopied ==
    videoState.pc = "returned" =>
        /\ videoState.result # <<>> => videoState.copied
        /\ ReadyVideos = {} => videoState.result = <<>>

-----------------------------------------------------------------------------
(* The output folders of the tests of a run                                *)

\* C36: the folder names <index>-<sanitized title> of any two test-end
\* events of a run differ, whatever their titles and whatever the
\* interleaving of their tasks.
C36_FolderNamesDistinct ==
    \A k, l \in DOMAIN tasks :
        k # l => tasks[k].folderName # tasks[l].folderName

\* C36 happens: a test ends while the task of another is still at its first
\* await, and their titles differ and sanitize to the same text
C36_Witness ==
    /\ Len(tasks) = 2
    /\ tasks[1].pc = "video"
    /\ tasks[1].input.test.title = TitleA /\ tasks[2].input.test.title = TitleB
    /\ SanitizeTitle(TitleA) = SanitizeTitle(TitleB)
    /\ tasks[1].folderName = <<"1","-","a","-">>
    /\ tasks[2].folderName = <<"2","-","a","-">>

-----------------------------------------------------------------------------
(* formatDuration, as onEnd calls it on the duration of the run            *)

\* whole milliseconds around the two thresholds and the rounding steps
Durations ==
    {0, 1, 999} \cup (1000..1003) \cup (59945..59955) \cup {59999, 60000, 60001}
        \cup (60498..60501) \cup (119498..119501) \cup {119999, 120000}

TimedResults == [status : {"passed"}, duration : Durations]

NextDuration ==
    \/ OnEnd(TimedResults)
    \/ OnEndResume
    \/ OnEndDone

\* a run without tests: onEnd formats the duration it is given (line 343)
SpecDuration == Init /\ [][NextDuration]_vars

\* the number a sequence of digits reads as
RECURSIVE ReadInt(_)
ReadInt(s) ==
    IF s = <<>> THEN 0
    ELSE ReadInt(SubSeq(s, 1, Len(s) - 1)) * 10
             + (CHOOSE d \in 0..9 : Digit[d + 1] = s[Len(s)])

AllDigits(s) == s # <<>> /\ \A i \in DOMAIN s : \E d \in 0..9 : Digit[d + 1] = s[i]

\* <seconds>.<tenth>s with a value below 60.0
SecondsBelowSixty(out) ==
    \E p \in DOMAIN out :
        /\ out[p] = "." /\ Len(out) = p + 2 /\ out[p + 2] = "s"
        /\ AllDigits(SubSeq(out, 1, p - 1)) /\ AllDigits(<<out[p + 1]>>)
        /\ ReadInt(SubSeq(out, 1, p - 1)) < 60

\* <minutes>m <seconds>s with the seconds in 0..59
MinutesAndSeconds(out) ==
    \E p \in DOMAIN out :
        /\ out[p] = "m" /\ Len(out) >= p + 3 /\ out[p + 1] = " " /\ out[Len(out)] = "s"
        /\ AllDigits(SubSeq(out, 1, p - 1)) /\ AllDigits(SubSeq(out, p + 2, Len(out) - 1))
        /\ ReadInt(SubSeq(out, p + 2, Len(out) - 1)) \in 0..59

\* C37: formatDuration prints the exact millisecond count below 1000 ms,
\* seconds with one decimal and a value below 60.0 from 1000 ms up to but
\* excluding 60000 ms, and minutes and whole seconds with the seconds in
\* 0..59 from 60000 ms on.
C37_DurationRanges ==
    onEnd.pc \in {"render", "done", "failed"} =>
        LET ms == onEnd.result.duration
            out == executionSummary.duration
        IN  /\ ms < 1000 => out = DigitsOf(ms) \o <<"m","s">>
            /\ (ms >= 1000 /\ ms < 60000) => SecondsBelowSixty(out)
            /\ ms >= 60000 => MinutesAndSeconds(out)

====
